---- MODULE Spec2Model ----
(***************************************************************************)
(* A model of pbrt-v4's shape geometry core (src/pbrt/shapes.h): Sphere,   *)
(* Disk, Cylinder, Triangle and the static BilinearPatch::Intersect.       *)
(*                                                                         *)
(* Float is modelled as a decimal fixed-point number: the integer n stands *)
(* for n / Scale.  Every multiplication, division and square root rounds   *)
(* to the nearest representable value, a result beyond MaxFin becomes an   *)
(* infinity, and division by zero and invalid operations give the IEEE     *)
(* infinities and NaN.  FloatInterval is a pair <<lo, hi>> whose           *)
(* operations round outward.                                               *)
(***************************************************************************)
EXTENDS Integers, Sequences, FiniteSets, TLC

(***************************************************************************)
(* Float                                                                   *)
(***************************************************************************)
\* Limb is the base of the limbs a product is formed from; Scale = Limb^2.
Limb == 1000
Scale == Limb * Limb
HalfScale == Scale \div 2
MaxFin == 1000000000
PInf == 2 * MaxFin
NInf == -PInf
NaN == -(PInf + 147483647)

\* The remainder of a function body after the locals it reads have been
\* computed.
After(locals, rest) == <<locals, rest>>[2]
IsNaN(x) == x = NaN
IsInf(x) == x = PInf \/ x = NInf
IsFin(x) == x >= -MaxFin /\ x <= MaxFin
Abs(x) == IF x < 0 THEN -x ELSE x
Sgn(x) == IF x < 0 THEN -1 ELSE IF x > 0 THEN 1 ELSE 0
Min2(a, b) == IF a <= b THEN a ELSE b
Max2(a, b) == IF a >= b THEN a ELSE b

\* Saturation of an integer result into the Float range.
Norm(n) == IF n > MaxFin THEN PInf ELSE IF n < -MaxFin THEN NInf ELSE n

\* Comparisons: every comparison with a NaN operand is false.
FLt(a, b) == ~IsNaN(a) /\ ~IsNaN(b) /\ a < b
FLe(a, b) == ~IsNaN(a) /\ ~IsNaN(b) /\ a <= b
FGt(a, b) == FLt(b, a)
FGe(a, b) == FLe(b, a)
FEq(a, b) == ~IsNaN(a) /\ ~IsNaN(b) /\ a = b
FNe(a, b) == ~FEq(a, b)

FNeg(a) == IF IsNaN(a) THEN NaN ELSE -a
FAbs(a) == IF IsNaN(a) THEN NaN ELSE Abs(a)

FAdd(a, b) ==
    IF IsNaN(a) \/ IsNaN(b) THEN NaN
    ELSE IF IsInf(a) THEN (IF IsInf(b) /\ a # b THEN NaN ELSE a)
    ELSE IF IsInf(b) THEN b
    ELSE Norm(a + b)
FSub(a, b) == FAdd(a, FNeg(b))

\* Rounding of a magnitude <<q, r>> with divisor d: mode 0 to nearest,
\* mode 1 away from zero, mode -1 toward zero.
RoundMag(q, r, d, mode) ==
    IF q = PInf THEN PInf
    ELSE IF mode = 0 THEN (IF 2 * r >= d THEN q + 1 ELSE q)
    ELSE IF mode = 1 THEN (IF r > 0 THEN q + 1 ELSE q)
    ELSE q

\* dir: 0 nearest, 1 toward +infinity, -1 toward -infinity.
MagMode(sign, dir) == IF dir = 0 THEN 0 ELSE IF sign * dir > 0 THEN 1 ELSE -1

\* The Float of sign s whose magnitude is p = <<floor, remainder, divisor>>
\* rounded in direction dir.
RoundSigned(s, p, dir) ==
    IF s = 0 THEN 0
    ELSE Norm(s * Min2(RoundMag(p[1], p[2], p[3], MagMode(s, dir)), PInf))

\* |a| * |b| / Scale for finite a, b, as <<floor, remainder, Scale>>; the
\* floor is PInf when it exceeds MaxFin.  The product is formed from
\* three-digit limbs so that no intermediate value leaves the 32-bit range.
MulCarry(h, t) == <<h + t \div Scale, t % Scale, Scale>>
MulSum(hi, m, lo) == MulCarry(hi + m \div Limb, (m % Limb) * Limb + lo)
MulLimbs(a1, a0, b1, b0) ==
    IF a1 > 0 /\ b1 > MaxFin \div a1 THEN <<PInf, 0, Scale>>
    ELSE MulSum(a1 * b1, a1 * b0 + a0 * b1, a0 * b0)
MulParts(a, b) == MulLimbs(a \div Limb, a % Limb, b \div Limb, b % Limb)

MulDir(a, b, dir) ==
    IF IsNaN(a) \/ IsNaN(b) THEN NaN
    ELSE IF IsInf(a) \/ IsInf(b)
         THEN (IF a = 0 \/ b = 0 THEN NaN
               ELSE IF Sgn(a) * Sgn(b) > 0 THEN PInf ELSE NInf)
    ELSE RoundSigned(Sgn(a) * Sgn(b), MulParts(Abs(a), Abs(b)), dir)
FMul(a, b) == MulDir(a, b, 0)

\* Six decimal digits of r / d (0 <= r < d), as <<digits, remainder>>.
RECURSIVE DivDigits(_, _, _, _)
DivDigits(r, d, k, acc) ==
    IF k = 0 THEN <<acc, r>>
    ELSE DivDigits((r * 10) % d, d, k - 1, acc * 10 + (r * 10) \div d)

\* |a| * Scale / |b| for finite a and finite b # 0, as <<floor, remainder,
\* divisor>>.  A divisor too large for the digit loop is cut by one digit
\* together with the dividend.
DivJoin(q0, dd, d) == <<q0 * Scale + dd[1], dd[2], d>>
DivCut(n, d) ==
    IF n \div d > MaxFin \div Scale THEN <<PInf, 0, d>>
    ELSE DivJoin(n \div d, DivDigits(n % d, d, 6, 0), d)
DivParts(a, b) == IF b > 200000000 THEN DivCut(a \div 10, b \div 10) ELSE DivCut(a, b)

DivDir(a, b, dir) ==
    IF IsNaN(a) \/ IsNaN(b) THEN NaN
    ELSE IF IsInf(a) THEN (IF IsInf(b) THEN NaN
                           ELSE IF Sgn(a) * (IF b < 0 THEN -1 ELSE 1) > 0
                                THEN PInf ELSE NInf)
    ELSE IF IsInf(b) THEN 0
    ELSE IF b = 0 THEN (IF a = 0 THEN NaN ELSE IF a > 0 THEN PInf ELSE NInf)
    ELSE RoundSigned(Sgn(a) * Sgn(b), DivParts(Abs(a), Abs(b)), dir)
FDiv(a, b) == DivDir(a, b, 0)

\* Integer square root by Newton's iteration from a start y >= sqrt(n).
IsqrtStep(n, y) == (y + n \div y) \div 2
RECURSIVE IsqrtFrom(_, _)
IsqrtFrom(n, y) == IF IsqrtStep(n, y) >= y THEN y ELSE IsqrtFrom(n, IsqrtStep(n, y))
Isqrt(n) == IF n = 0 THEN 0 ELSE IsqrtFrom(n, Min2(n, 31623))

\* floor(sqrt(x * Scale)) for finite x > 0 by Newton's iteration, the
\* quotients x * Scale / y taken by DivParts.
RECURSIVE SqrtFrom(_, _)
SqrtNext(x, y, z) == IF z >= y THEN y ELSE SqrtFrom(x, z)
SqrtFrom(x, y) == SqrtNext(x, y, (y + DivParts(x, y)[1]) \div 2)

\* The rounding of the root y of x, rest = x * Scale - y * y.
SqrtRound(y, rest, dir) ==
    IF dir = 0 THEN (IF rest >= y + 1 THEN y + 1 ELSE y)
    ELSE IF dir = 1 THEN (IF rest > 0 THEN y + 1 ELSE y)
    ELSE y
SqrtRest(y, p, dir) == SqrtRound(y, (p[1] - y) * y + p[2], dir)
SqrtOf(x, y, dir) == SqrtRest(y, DivParts(x, y), dir)
SqrtDir(x, dir) ==
    IF IsNaN(x) \/ x < 0 THEN NaN
    ELSE IF x = PInf THEN PInf
    ELSE IF x = 0 THEN 0
    ELSE SqrtOf(x, SqrtFrom(x, (Isqrt(x) + 1) * Limb), dir)
FSqrt(x) == SqrtDir(x, 0)
SafeSqrt(x) == FSqrt(IF FLt(x, 0) THEN 0 ELSE x)
Sqr(x) == FMul(x, x)

\* A decimal literal n / d as a Float.
Lit(n, d) == (n * Scale) \div d

(***************************************************************************)
(* std::atan2, std::cos and std::sin by CORDIC.  Angles are carried        *)
(* internally in units of 10^-9 radian.                                    *)
(***************************************************************************)
Pi == 3141593
TwoPi == 2 * Pi
PiOver2 == 1570796
AtanTable ==
    <<785398163, 463647609, 244978663, 124354995, 62418810, 31239833,
      15623729, 7812341, 3906230, 1953123, 976562, 488281, 244141, 122070,
      61035, 30518, 15259, 7629, 3815, 1907, 954, 477, 238, 119, 60, 30,
      15, 7, 4, 2>>
CordicGain == 607252935

RECURSIVE Pow2(_)
Pow2(i) == IF i = 0 THEN 1 ELSE 2 * Pow2(i - 1)
\* Arithmetic shift that rounds toward zero.
Shr(v, i) == IF v >= 0 THEN v \div Pow2(i) ELSE -((-v) \div Pow2(i))

\* Vectoring mode: the angle of (x, y), x >= 0, y >= 0, not both zero.
RECURSIVE CordicVec(_, _, _, _)
CordicVec(x, y, z, i) ==
    IF i = Len(AtanTable) \/ y = 0 THEN z
    ELSE IF y > 0
         THEN CordicVec(x + Shr(y, i), y - Shr(x, i), z + AtanTable[i + 1], i + 1)
         ELSE CordicVec(x - Shr(y, i), y + Shr(x, i), z - AtanTable[i + 1], i + 1)

\* Inputs brought into [3*10^7, 3*10^8] so that the iteration keeps its
\* precision and stays in range.
RECURSIVE ScaleUp(_, _)
ScaleUp(x, y) ==
    IF Max2(x, y) > 300000000 THEN ScaleUp(x \div 10, y \div 10)
    ELSE IF Max2(x, y) < 30000000 THEN ScaleUp(x * 10, y * 10)
    ELSE <<x, y>>

CordicAngle(v) == (CordicVec(v[1], v[2], 0, 0) + 500) \div 1000
Atan2Signed(y, x, a) ==
    IF y < 0 THEN -(IF x < 0 THEN Pi - a ELSE a) ELSE (IF x < 0 THEN Pi - a ELSE a)
Atan2(y, x) ==
    IF IsNaN(y) \/ IsNaN(x) THEN NaN
    ELSE IF x = 0 /\ y = 0 THEN 0
    ELSE Atan2Signed(y, x, CordicAngle(ScaleUp(
             IF IsInf(x) THEN (IF IsInf(y) THEN 1 ELSE 1000)
             ELSE IF IsInf(y) THEN 0 ELSE Abs(x),
             IF IsInf(y) THEN (IF IsInf(x) THEN 1 ELSE 1000)
             ELSE IF IsInf(x) THEN 0 ELSE Abs(y))))

\* Rotation mode: <<cos, sin>> of an angle z in [0, pi/2], in units of 10^-9.
RECURSIVE CordicRot(_, _, _, _)
CordicRot(x, y, z, i) ==
    IF i = Len(AtanTable) THEN <<x, y>>
    ELSE IF z >= 0
         THEN CordicRot(x - Shr(y, i), y + Shr(x, i), z - AtanTable[i + 1], i + 1)
         ELSE CordicRot(x + Shr(y, i), y - Shr(x, i), z + AtanTable[i + 1], i + 1)

CosSinQuadrant(q, c, s) ==
    IF q = 1 THEN <<-s, c>>
    ELSE IF q = 2 THEN <<-c, -s>>
    ELSE IF q = 3 THEN <<s, -c>>
    ELSE <<c, s>>
CosSinRounded(q, r) == CosSinQuadrant(q, (r[1] + 500) \div 1000, (r[2] + 500) \div 1000)
CosSinReduced(t) ==
    CosSinRounded(t \div PiOver2, CordicRot(CordicGain, 0, (t % PiOver2) * 1000, 0))
CosSin(theta) == IF ~IsFin(theta) THEN <<NaN, NaN>> ELSE CosSinReduced(theta % TwoPi)
FCos(theta) == CosSin(theta)[1]
FSin(theta) == CosSin(theta)[2]

\* Radians(deg) for an angle in whole degrees, deg in 0 .. 360.
Radians(deg) == (Pi * deg + 90) \div 180
\* A clamp from above only.
ClampAbove(v, lo, hi) == IF v > hi THEN hi ELSE v
Clamp(v, lo, hi) == IF v < lo THEN lo ELSE IF v > hi THEN hi ELSE v
\* if (phi < 0) phi += 2 * Pi.
WrapPhi(phi) == IF FLt(phi, 0) THEN FAdd(phi, TwoPi) ELSE phi

(***************************************************************************)
(* Vectors, points and normals: triples of Float                           *)
(***************************************************************************)
Vec(x, y, z) == <<x, y, z>>
VAdd(a, b) == <<FAdd(a[1], b[1]), FAdd(a[2], b[2]), FAdd(a[3], b[3])>>
VSub(a, b) == <<FSub(a[1], b[1]), FSub(a[2], b[2]), FSub(a[3], b[3])>>
VNeg(a) == <<FNeg(a[1]), FNeg(a[2]), FNeg(a[3])>>
VScale(s, a) == <<FMul(s, a[1]), FMul(s, a[2]), FMul(s, a[3])>>
VDivS(a, s) == <<FDiv(a[1], s), FDiv(a[2], s), FDiv(a[3], s)>>
Dot(a, b) == FAdd(FAdd(FMul(a[1], b[1]), FMul(a[2], b[2])), FMul(a[3], b[3]))
AbsDot(a, b) == FAbs(Dot(a, b))
DifferenceOfProducts(a, b, c, d) == FSub(FMul(a, b), FMul(c, d))
Cross(a, b) ==
    <<DifferenceOfProducts(a[2], b[3], a[3], b[2]),
      DifferenceOfProducts(a[3], b[1], a[1], b[3]),
      DifferenceOfProducts(a[1], b[2], a[2], b[1])>>
LengthSquared(a) == Dot(a, a)
Length(a) == FSqrt(LengthSquared(a))
Normalize(a) == VDivS(a, Length(a))
DistanceSquared(p, q) == LengthSquared(VSub(p, q))
Distance(p, q) == Length(VSub(p, q))
VEq(a, b) == FEq(a[1], b[1]) /\ FEq(a[2], b[2]) /\ FEq(a[3], b[3])
Lerp(t, a, b) == FAdd(FMul(FSub(Scale, t), a), FMul(t, b))
VLerp(t, a, b) == <<Lerp(t, a[1], b[1]), Lerp(t, a[2], b[2]), Lerp(t, a[3], b[3])>>
Zero3 == <<0, 0, 0>>

(***************************************************************************)
(* FloatInterval: <<lo, hi>>.  Every operation rounds its lower bound down *)
(* and its upper bound up and then steps one unit outward, as pbrt's       *)
(* AddRoundDown/AddRoundUp (NextFloatDown/NextFloatUp) do.                 *)
(***************************************************************************)
NextFloatUp(x) == IF IsNaN(x) \/ x = PInf THEN x ELSE Norm(x + 1)
NextFloatDown(x) == IF IsNaN(x) \/ x = NInf THEN x ELSE Norm(x - 1)
Interval(lo, hi) == <<lo, hi>>
Exact(x) == <<x, x>>
LowerBound(i) == i[1]
UpperBound(i) == i[2]
\* The (Float) cast of an interval.
Midpoint(i) == FDiv(FAdd(i[1], i[2]), 2 * Scale)
InRange(x, i) == FGe(x, i[1]) /\ FLe(x, i[2])
FMin(a, b) == IF FLt(b, a) THEN b ELSE a
FMax(a, b) == IF FLt(a, b) THEN b ELSE a
Min4(a, b, c, d) == FMin(FMin(a, b), FMin(c, d))
Max4(a, b, c, d) == FMax(FMax(a, b), FMax(c, d))
MulRoundDown(a, b) == NextFloatDown(MulDir(a, b, -1))
MulRoundUp(a, b) == NextFloatUp(MulDir(a, b, 1))
DivRoundDown(a, b) == NextFloatDown(DivDir(a, b, -1))
DivRoundUp(a, b) == NextFloatUp(DivDir(a, b, 1))
SqrtRoundDown(x) == FMax(0, NextFloatDown(SqrtDir(x, -1)))
SqrtRoundUp(x) == NextFloatUp(SqrtDir(x, 1))

IAdd(a, b) == <<NextFloatDown(FAdd(a[1], b[1])), NextFloatUp(FAdd(a[2], b[2]))>>
ISub(a, b) == <<NextFloatDown(FSub(a[1], b[2])), NextFloatUp(FSub(a[2], b[1]))>>
IMul(a, b) ==
    <<Min4(MulRoundDown(a[1], b[1]), MulRoundDown(a[2], b[1]),
           MulRoundDown(a[1], b[2]), MulRoundDown(a[2], b[2])),
      Max4(MulRoundUp(a[1], b[1]), MulRoundUp(a[2], b[1]),
           MulRoundUp(a[1], b[2]), MulRoundUp(a[2], b[2]))>>
IDiv(a, b) ==
    IF InRange(0, b) THEN <<NInf, PInf>>
    ELSE <<Min4(DivRoundDown(a[1], b[1]), DivRoundDown(a[2], b[1]),
                DivRoundDown(a[1], b[2]), DivRoundDown(a[2], b[2])),
           Max4(DivRoundUp(a[1], b[1]), DivRoundUp(a[2], b[1]),
                DivRoundUp(a[1], b[2]), DivRoundUp(a[2], b[2]))>>
\* Float * FloatInterval.
IScale(f, i) ==
    IF FGt(f, 0) THEN <<MulRoundDown(f, i[1]), MulRoundUp(f, i[2])>>
    ELSE <<MulRoundDown(f, i[2]), MulRoundUp(f, i[1])>>
ISqrOf(i, alow, ahigh) ==
    IF InRange(0, i) THEN <<0, MulRoundUp(ahigh, ahigh)>>
    ELSE <<MulRoundDown(alow, alow), MulRoundUp(ahigh, ahigh)>>
ISqr(i) == ISqrOf(i, FMin(FAbs(i[1]), FAbs(i[2])), FMax(FAbs(i[1]), FAbs(i[2])))
ISqrt(i) == <<SqrtRoundDown(i[1]), SqrtRoundUp(i[2])>>
SumSquares2(a, b) == IAdd(ISqr(a), ISqr(b))
SumSquares3(a, b, c) == IAdd(ISqr(a), IAdd(ISqr(b), ISqr(c)))
IEq(a, b) == FEq(a[1], b[1]) /\ FEq(a[2], b[2])
\* Point3fi and Vector3fi: triples of intervals; Point3f(pi) is the triple
\* of midpoints.
ExactP(p) == <<Exact(p[1]), Exact(p[2]), Exact(p[3])>>
MidP(pi) == <<Midpoint(pi[1]), Midpoint(pi[2]), Midpoint(pi[3])>>

(***************************************************************************)
(* Transform: x -> M x + t, where M reflects x when mirror holds (such a   *)
(* transform swaps handedness).  A shape points at two transforms of the   *)
(* table `transforms`: renderFromObject and its inverse objectFromRender.  *)
(***************************************************************************)
MirrorX(m, v) == IF m THEN <<FNeg(v[1]), v[2], v[3]>> ELSE v
MakeTransform(m, t) == [mirror |-> m, t |-> t]
Inverse(T) == [mirror |-> T.mirror, t |-> VNeg(MirrorX(T.mirror, T.t))]
SwapsHandedness(T) == T.mirror
ApplyP(T, p) == VAdd(MirrorX(T.mirror, p), T.t)
ApplyV(T, v) == MirrorX(T.mirror, v)
ApplyN(T, n) == MirrorX(T.mirror, n)
\* A transform applied to Point3fi(p) and Vector3fi(v) of an exact point:
\* the result carries the rounding error of the transformation.
Widen(x, on) == IF on THEN <<NextFloatDown(x), NextFloatUp(x)>> ELSE Exact(x)
WidenP(q, on) == <<Widen(q[1], on), Widen(q[2], on), Widen(q[3], on)>>
ApplyPi(T, p) == WidenP(ApplyP(T, p), T.t # Zero3)
ApplyVi(T, v) == ExactP(ApplyV(T, v))

(***************************************************************************)
(* Records of the shape interface                                          *)
(***************************************************************************)
\* The empty pstd::optional.
None == [has |-> FALSE]
\* Ray::operator()(t).
RayAt(o, d, t) == VAdd(o, VScale(t, d))
MakeRay(o, d, time) == [o |-> o, d |-> d, time |-> time]
QuadricIntersection(tHit, pObj, phi) ==
    [has |-> TRUE, tHit |-> tHit, pObj |-> pObj, phi |-> phi]
\* SurfaceInteraction(pi, uv, wo, dpdu, dpdv, dndu, dndv, time, flip): the
\* geometric normal is Normalize(Cross(dpdu, dpdv)), negated when flip holds.
\* dndu and dndv are not carried: no property reads them.
SurfaceInteractionN(p, uv, wo, dpdu, dpdv, time, flip, n) ==
    After(<<n>>,
          [p |-> p, uv |-> uv, wo |-> wo, dpdu |-> dpdu, dpdv |-> dpdv,
           n |-> IF flip THEN VNeg(n) ELSE n, ns |-> IF flip THEN VNeg(n) ELSE n,
           time |-> time])
SurfaceInteraction(p, uv, wo, dpdu, dpdv, time, flip) ==
    SurfaceInteractionN(p, uv, wo, dpdu, dpdv, time, flip, Normalize(Cross(dpdu, dpdv)))
\* Transform::operator()(SurfaceInteraction).
ApplySI(T, si) ==
    [si EXCEPT !.p = ApplyP(T, si.p), !.wo = ApplyV(T, si.wo),
               !.dpdu = ApplyV(T, si.dpdu), !.dpdv = ApplyV(T, si.dpdv),
               !.n = ApplyN(T, si.n), !.ns = ApplyN(T, si.ns)]
ShapeIntersection(intr, tHit) == [has |-> TRUE, intr |-> intr, tHit |-> tHit]
ACos(x) == Atan2(FSqrt(FSub(Scale, Sqr(x))), x)
SafeACos(x) == ACos(Clamp(x, -Scale, Scale))

(***************************************************************************)
(* Sphere                                                                  *)
(***************************************************************************)
\* Sphere::Sphere.  rfo and ofr index the table of transforms; phiMax is
\* given in degrees.
MakeSphere(T, rfo, ofr, reverseOrientation, radius, zMin, zMax, phiMax) ==
    [kind |-> "Sphere",
     renderFromObject |-> rfo,
     objectFromRender |-> ofr,
     reverseOrientation |-> reverseOrientation,
     transformSwapsHandedness |-> SwapsHandedness(T[rfo]),
     radius |-> radius,
     zMin |-> Clamp(Min2(zMin, zMax), -radius, radius),
     zMax |-> Clamp(Max2(zMin, zMax), -radius, radius),
     thetaZMin |-> ACos(Clamp(FDiv(Min2(zMin, zMax), radius), -Scale, Scale)),
     thetaZMax |-> ACos(Clamp(FDiv(Max2(zMin, zMax), radius), -Scale, Scale)),
     phiMax |-> Radians(Clamp(phiMax, 0, 360))]

\* Sphere::SphereQuadratic: [ok, t0, t1].  The operators below are the
\* successive parts of the function body; each receives the locals computed
\* so far.
\* An order of the roots that never swaps them.
SphereQuadraticUnordered(t0, t1) == [ok |-> TRUE, t0 |-> t0, t1 |-> t1]
SphereQuadraticOrder(t0, t1) ==
    IF FGt(LowerBound(t0), LowerBound(t1))
    THEN [ok |-> TRUE, t0 |-> t1, t1 |-> t0]
    ELSE [ok |-> TRUE, t0 |-> t0, t1 |-> t1]
\* q = -.5 * (b - rootDiscrim) if (Float)b < 0, -.5 * (b + rootDiscrim) otherwise.
SphereQuadraticQOf(b, rootDiscrim) ==
    IF FLt(Midpoint(b), 0)
    THEN IScale(-HalfScale, ISub(b, rootDiscrim))
    ELSE IScale(-HalfScale, IAdd(b, rootDiscrim))
SphereQuadraticQ(a, c, q) == After(<<q>>, SphereQuadraticOrder(IDiv(q, a), IDiv(c, q)))
SphereQuadraticRoot(a, b, c, rootDiscrim) ==
    SphereQuadraticQ(a, c, SphereQuadraticQOf(b, rootDiscrim))
\* A discriminant is rejected by its upper bound.
SphereDiscrimNegativeAbove(discrim) == FLt(UpperBound(discrim), 0)
\* if (discrim.LowerBound() < 0) return {}.
SphereDiscrimNegative(discrim) == FLt(LowerBound(discrim), 0)
SphereQuadraticDiscrim(a, b, c, discrim) ==
    IF SphereDiscrimNegative(discrim) THEN [ok |-> FALSE]
    ELSE SphereQuadraticRoot(a, b, c, ISqrt(discrim))
\* discrim = 4 * a * (radius - sqrtf) * (radius + sqrtf).
SphereDiscrimOf(S, a, sqrtf) ==
    IMul(IMul(IScale(4 * Scale, a), ISub(Exact(S.radius), sqrtf)),
         IAdd(Exact(S.radius), sqrtf))
SphereQuadraticSqrtf(S, a, b, c, sqrtf) ==
    After(<<sqrtf>>, SphereQuadraticDiscrim(a, b, c, SphereDiscrimOf(S, a, sqrtf)))
\* sqrtf = Sqrt(SumSquares(fp.x, fp.y, fp.z)) for fp = o - f * d.
SphereSqrtfOf(o, d, f) ==
    ISqrt(SumSquares3(ISub(o[1], IMul(f, d[1])),
                      ISub(o[2], IMul(f, d[2])),
                      ISub(o[3], IMul(f, d[3]))))
SphereQuadraticF(S, o, d, a, b, c, f) ==
    After(<<f>>, SphereQuadraticSqrtf(S, a, b, c, SphereSqrtfOf(o, d, f)))
SphereQuadraticABC(S, o, d, a, b, c) ==
    After(<<a, b, c>>, SphereQuadraticF(S, o, d, a, b, c, IDiv(b, IScale(2 * Scale, a))))
\* The coefficients a, b and c of the quadratic.
SphereCoefA(d) == SumSquares3(d[1], d[2], d[3])
SphereCoefB(o, d) ==
    IScale(2 * Scale, IAdd(IAdd(IMul(d[1], o[1]), IMul(d[2], o[2])), IMul(d[3], o[3])))
SphereCoefC(S, o) == ISub(SumSquares3(o[1], o[2], o[3]), ISqr(Exact(S.radius)))
SphereQuadratic(S, o, d) ==
    SphereQuadraticABC(S, o, d, SphereCoefA(d), SphereCoefB(o, d), SphereCoefC(S, o))
\* The discriminant interval SphereQuadratic computes for the ray (o, d).
SphereDiscriminant(S, o, d) ==
    SphereDiscrimOf(S, SphereCoefA(d),
        SphereSqrtfOf(o, d, IDiv(SphereCoefB(o, d), IScale(2 * Scale, SphereCoefA(d)))))

\* The hit position and phi of Sphere::BasicIntersect for a root interval.
SphereHitPhi(pHit) ==
    After(<<pHit>>, [pHit |-> pHit, phi |-> WrapPhi(Atan2(pHit[2], pHit[1]))])
SphereHitRefined(S, pHit) ==
    SphereHitPhi(IF FEq(pHit[1], 0) /\ FEq(pHit[2], 0)
                 THEN <<FMul(10, S.radius), pHit[2], pHit[3]>>
                 ELSE pHit)
SphereHitOnRay(S, pHit) ==
    After(<<pHit>>, SphereHitRefined(S, VScale(FDiv(S.radius, Distance(pHit, Zero3)), pHit)))
SphereHitPoint(S, o, d, tShapeHit) == SphereHitOnRay(S, RayAt(o, d, Midpoint(tShapeHit)))

\* The test of a sphere hit against the clipping parameters.
SphereClipped(S, h) ==
    \/ (FGt(S.zMin, -S.radius) /\ FLt(h.pHit[3], S.zMin))
    \/ (FLt(S.zMax, S.radius) /\ FGt(h.pHit[3], S.zMax))
    \/ FGt(h.phi, S.phiMax)

\* Sphere::BasicIntersect(r, tMax).
\* The hit at t1 returned without the second test against the clipping
\* parameters.
SphereBasicSecondUntested(S, t1, h) == QuadricIntersection(Midpoint(t1), h.pHit, h.phi)
SphereBasicSecond(S, t1, h) ==
    IF SphereClipped(S, h) THEN None
    ELSE QuadricIntersection(Midpoint(t1), h.pHit, h.phi)
SphereBasicFirst(S, o, d, t1, tMax, tShapeHit, h) ==
    After(<<h>>,
          IF ~SphereClipped(S, h)
          THEN QuadricIntersection(Midpoint(tShapeHit), h.pHit, h.phi)
          ELSE IF IEq(tShapeHit, t1) THEN None
          ELSE IF FGt(UpperBound(t1), tMax) THEN None
          ELSE SphereBasicSecond(S, t1, SphereHitPoint(S, o, d, t1)))
SphereBasicNearest(S, o, d, t1, tMax, tShapeHit) ==
    SphereBasicFirst(S, o, d, t1, tMax, tShapeHit, SphereHitPoint(S, o, d, tShapeHit))
\* The check of t0 and t1 for the nearest intersection: the root interval
\* the hit is first computed at, if any.
SphereNearestRootSameTest(t0, t1, tMax) ==
    IF FGt(LowerBound(t0), 0) /\ FLe(UpperBound(t0), tMax) THEN [has |-> TRUE, t |-> t0]
    ELSE IF FGt(LowerBound(t1), 0) /\ FLe(UpperBound(t1), tMax) THEN [has |-> TRUE, t |-> t1]
    ELSE None
SphereNearestRoot(t0, t1, tMax) ==
    IF FGt(UpperBound(t0), tMax) \/ FLe(LowerBound(t1), 0) THEN None
    ELSE IF FLe(LowerBound(t0), 0)
         THEN IF FGt(UpperBound(t1), tMax) THEN None ELSE [has |-> TRUE, t |-> t1]
         ELSE [has |-> TRUE, t |-> t0]
SphereBasicChosen(S, o, d, t1, tMax, chosen) ==
    After(<<chosen>>,
          IF ~chosen.has THEN None
          ELSE SphereBasicNearest(S, o, d, t1, tMax, chosen.t))
SphereBasicRoots(S, o, d, qd, tMax) ==
    After(<<qd>>,
          IF ~qd.ok THEN None
          ELSE SphereBasicChosen(S, o, d, qd.t1, tMax,
                 SphereNearestRoot(qd.t0, qd.t1, tMax)))
SphereBasicObject(S, oi, di, tMax) ==
    After(<<oi, di>>, SphereBasicRoots(S, MidP(oi), MidP(di), SphereQuadratic(S, oi, di), tMax))
SphereBasicIntersect(T, S, r, tMax) ==
    SphereBasicObject(S, ApplyPi(T[S.objectFromRender], r.o),
                      ApplyVi(T[S.objectFromRender], r.d), tMax)

\* Sphere::InteractionFromIntersection(isect, wo, time).
SphereInteractionDpdv(T, S, pHit, uv, wo, time, dpdu, dpdv) ==
    After(<<dpdu, dpdv>>,
          ApplySI(T[S.renderFromObject],
                  SurfaceInteraction(pHit, uv, ApplyV(T[S.objectFromRender], wo),
                                     dpdu, dpdv, time,
                                     S.reverseOrientation # S.transformSwapsHandedness)))
SphereInteractionPhi(T, S, pHit, uv, wo, time, cosTheta, invZRadius) ==
    After(<<uv, invZRadius>>,
          SphereInteractionDpdv(T, S, pHit, uv, wo, time,
              <<FMul(FNeg(S.phiMax), pHit[2]), FMul(S.phiMax, pHit[1]), 0>>,
              VScale(FSub(S.thetaZMax, S.thetaZMin),
                     <<FMul(pHit[3], FMul(pHit[1], invZRadius)),
                       FMul(pHit[3], FMul(pHit[2], invZRadius)),
                       FMul(FNeg(S.radius),
                            SafeSqrt(FSub(Scale, FMul(cosTheta, cosTheta))))>>)))
\* zRadius = std::sqrt(pHit.x * pHit.x + pHit.y * pHit.y).
SphereZRadius(pHit) == FSqrt(FAdd(FMul(pHit[1], pHit[1]), FMul(pHit[2], pHit[2])))
SphereInteractionTheta(T, S, pHit, phi, wo, time, cosTheta) ==
    After(<<cosTheta>>,
          SphereInteractionPhi(T, S, pHit,
              <<FDiv(phi, S.phiMax),
                FDiv(FSub(SafeACos(cosTheta), S.thetaZMin),
                     FSub(S.thetaZMax, S.thetaZMin))>>,
              wo, time, cosTheta,
              FDiv(Scale, SphereZRadius(pHit))))
SphereInteractionFromIntersection(T, S, isect, wo, time) ==
    SphereInteractionTheta(T, S, isect.pObj, isect.phi, wo, time,
                           FDiv(isect.pObj[3], S.radius))

\* Sphere::Intersect(ray, tMax).
SphereIntersectFound(T, S, ray, isect) ==
    After(<<isect>>,
          IF ~isect.has THEN None
          ELSE ShapeIntersection(
                   SphereInteractionFromIntersection(T, S, isect, VNeg(ray.d), ray.time),
                   isect.tHit))
SphereIntersect(T, S, ray, tMax) ==
    SphereIntersectFound(T, S, ray, SphereBasicIntersect(T, S, ray, tMax))

\* Sphere::IntersectP(r, tMax).
SphereIntersectP(T, S, r, tMax) == SphereBasicIntersect(T, S, r, tMax).has

\* Sphere::Area.
\* The area of the sphere with the full sweep 2 Pi.
SphereAreaFullSweep(S) == FMul(FMul(TwoPi, S.radius), FSub(S.zMax, S.zMin))
SphereArea(S) == FMul(FMul(S.phiMax, S.radius), FSub(S.zMax, S.zMin))

(***************************************************************************)
(* ShapeSampleContext and ShapeSample                                      *)
(***************************************************************************)
\* ShapeSampleContext(pi, n, ns, time): p is the point, err its error vector.
ShapeSampleContext(p, err, n, ns, time) ==
    [p |-> p, err |-> err, n |-> n, ns |-> ns, time |-> time]
VAbs(a) == <<FAbs(a[1]), FAbs(a[2]), FAbs(a[3])>>
RoundAway(po, offset) ==
    IF FGt(offset, 0) THEN NextFloatUp(po)
    ELSE IF FLt(offset, 0) THEN NextFloatDown(po)
    ELSE po
\* ShapeSampleContext::OffsetRayOrigin(w).
OffsetRayOriginRound(po, offset) ==
    <<RoundAway(po[1], offset[1]), RoundAway(po[2], offset[2]),
      RoundAway(po[3], offset[3])>>
OffsetRayOriginFlip(ctx, offset) ==
    After(<<offset>>, OffsetRayOriginRound(VAdd(ctx.p, offset), offset))
OffsetRayOriginBy(ctx, w, offset) ==
    OffsetRayOriginFlip(ctx, IF FLt(Dot(w, ctx.n), 0) THEN VNeg(offset) ELSE offset)
OffsetRayOrigin(ctx, w) ==
    OffsetRayOriginBy(ctx, w, VScale(Dot(VAbs(ctx.n), ctx.err), ctx.n))
\* ShapeSampleContext::OffsetRayOrigin(pt).
OffsetRayOriginTo(ctx, pt) == OffsetRayOrigin(ctx, VSub(pt, ctx.p))
\* ShapeSampleContext::SpawnRay(w).
SpawnRay(ctx, w) == MakeRay(OffsetRayOrigin(ctx, w), w, ctx.time)
\* Interaction(pi, n, time); the time of Interaction(pi, n) is 0.
Interaction(p, n, time) == [p |-> p, n |-> n, time |-> time]
ShapeSample(intr, pdf) == [has |-> TRUE, intr |-> intr, pdf |-> pdf]
\* The conversion of an area-measure sample to solid angle shared by the
\* Sample(ctx, u) methods: the steps after the Sample(u) call.
\* The conversion without the test for an infinite density.
SolidAnglePdfUnchecked(ss, pdf) == [ss EXCEPT !.pdf = pdf]
SolidAnglePdf(ss, pdf) == IF IsInf(pdf) THEN None ELSE [ss EXCEPT !.pdf = pdf]
SolidAngleWi(ss, ctx, wi) ==
    IF FEq(LengthSquared(wi), 0) THEN None
    ELSE SolidAnglePdf(ss, FMul(ss.pdf, FDiv(DistanceSquared(ctx.p, ss.intr.p),
                                             AbsDot(ss.intr.n, VNeg(Normalize(wi))))))
SolidAngleFromArea(ss, ctx) == SolidAngleWi(ss, ctx, VSub(ss.intr.p, ctx.p))

(***************************************************************************)
(* Disk                                                                    *)
(***************************************************************************)
\* Disk::Disk.
MakeDisk(T, rfo, ofr, reverseOrientation, height, radius, innerRadius, phiMax) ==
    [kind |-> "Disk",
     renderFromObject |-> rfo,
     objectFromRender |-> ofr,
     reverseOrientation |-> reverseOrientation,
     transformSwapsHandedness |-> SwapsHandedness(T[rfo]),
     height |-> height,
     radius |-> radius,
     innerRadius |-> innerRadius,
     phiMax |-> Radians(Clamp(phiMax, 0, 360))]

\* Disk::Area.
DiskArea(D) ==
    FMul(FMul(D.phiMax, Scale \div 2),
         FSub(FMul(D.radius, D.radius), FMul(D.innerRadius, D.innerRadius)))

\* Disk::BasicIntersect(r, tMax).
\* The plane parameter with the sign of the distance reversed.
DiskTShapeHitNegated(D, o, d) == FDiv(FSub(o[3], D.height), d[3])
\* The parameter of the ray at the plane of the disk.
DiskTShapeHit(D, o, d) == FDiv(FSub(D.height, o[3]), d[3])
\* The angle with the arguments of atan2 exchanged.
DiskPhiSwapped(pHit) == WrapPhi(Atan2(pHit[1], pHit[2]))
\* The angle of the hit point.
DiskPhi(pHit) == WrapPhi(Atan2(pHit[2], pHit[1]))
DiskBasicPhi(D, tShapeHit, pHit, phi) ==
    IF FGt(phi, D.phiMax) THEN None
    ELSE QuadricIntersection(tShapeHit, pHit, phi)
\* The test of the outer radius alone.
DiskBasicRadialOuter(D, tShapeHit, pHit, dist2) ==
    IF FGt(dist2, FMul(D.radius, D.radius)) THEN None
    ELSE DiskBasicPhi(D, tShapeHit, pHit, DiskPhi(pHit))
DiskBasicRadial(D, tShapeHit, pHit, dist2) ==
    IF FGt(dist2, FMul(D.radius, D.radius))
       \/ FLt(dist2, FMul(D.innerRadius, D.innerRadius)) THEN None
    ELSE DiskBasicPhi(D, tShapeHit, pHit, DiskPhi(pHit))
DiskBasicPoint(D, tShapeHit, pHit) ==
    After(<<pHit>>,
          DiskBasicRadial(D, tShapeHit, pHit,
                          FAdd(FMul(pHit[1], pHit[1]), FMul(pHit[2], pHit[2]))))
DiskBasicPlane(D, o, d, tMax, tShapeHit) ==
    IF FLe(tShapeHit, 0) \/ FGe(tShapeHit, tMax) THEN None
    ELSE DiskBasicPoint(D, tShapeHit, RayAt(o, d, tShapeHit))
DiskBasicObject(D, o, d, tMax) ==
    After(<<o, d>>,
          IF FEq(d[3], 0) THEN None
          ELSE DiskBasicPlane(D, o, d, tMax, DiskTShapeHit(D, o, d)))
DiskBasicIntersect(T, D, r, tMax) ==
    DiskBasicObject(D, MidP(ApplyPi(T[D.objectFromRender], r.o)),
                    MidP(ApplyVi(T[D.objectFromRender], r.d)), tMax)

\* Disk::InteractionFromIntersection(isect, wo, time).
DiskInteractionDpdv(T, D, pHit, uv, wo, time, dpdu, dpdv) ==
    After(<<uv, dpdu, dpdv>>,
          ApplySI(T[D.renderFromObject],
                  SurfaceInteraction(<<pHit[1], pHit[2], D.height>>, uv,
                                     ApplyV(T[D.objectFromRender], wo), dpdu, dpdv, time,
                                     D.reverseOrientation # D.transformSwapsHandedness)))
DiskInteractionRHit(T, D, pHit, phi, wo, time, rHit) ==
    After(<<rHit>>,
          DiskInteractionDpdv(T, D, pHit,
              <<FDiv(phi, D.phiMax),
                FDiv(FSub(D.radius, rHit), FSub(D.radius, D.innerRadius))>>,
              wo, time,
              <<FMul(FNeg(D.phiMax), pHit[2]), FMul(D.phiMax, pHit[1]), 0>>,
              VDivS(VScale(FSub(D.innerRadius, D.radius), <<pHit[1], pHit[2], 0>>),
                    rHit)))
DiskInteractionFromIntersection(T, D, isect, wo, time) ==
    DiskInteractionRHit(T, D, isect.pObj, isect.phi, wo, time,
        FSqrt(FAdd(FMul(isect.pObj[1], isect.pObj[1]),
                   FMul(isect.pObj[2], isect.pObj[2]))))

\* Disk::Intersect(ray, tMax).
DiskIntersectFound(T, D, ray, isect) ==
    After(<<isect>>,
          IF ~isect.has THEN None
          ELSE ShapeIntersection(
                   DiskInteractionFromIntersection(T, D, isect, VNeg(ray.d), ray.time),
                   isect.tHit))
DiskIntersect(T, D, ray, tMax) ==
    DiskIntersectFound(T, D, ray, DiskBasicIntersect(T, D, ray, tMax))

\* Disk::IntersectP(r, tMax).
DiskIntersectP(T, D, r, tMax) == DiskBasicIntersect(T, D, r, tMax).has

(***************************************************************************)
(* Cylinder                                                                *)
(***************************************************************************)
\* Cylinder::Cylinder.
MakeCylinder(T, rfo, ofr, reverseOrientation, radius, zMin, zMax, phiMax) ==
    [kind |-> "Cylinder",
     renderFromObject |-> rfo,
     objectFromRender |-> ofr,
     reverseOrientation |-> reverseOrientation,
     transformSwapsHandedness |-> SwapsHandedness(T[rfo]),
     radius |-> radius,
     zMin |-> Min2(zMin, zMax),
     zMax |-> Max2(zMin, zMax),
     phiMax |-> Radians(Clamp(phiMax, 0, 360))]

\* Cylinder::Area.
CylinderArea(C) == FMul(FMul(FSub(C.zMax, C.zMin), C.radius), C.phiMax)

\* Cylinder::CylinderQuadratic: [ok, t0, t1].
CylinderQuadraticOrder(t0, t1) ==
    IF FGt(LowerBound(t0), LowerBound(t1))
    THEN [ok |-> TRUE, t0 |-> t1, t1 |-> t0]
    ELSE [ok |-> TRUE, t0 |-> t0, t1 |-> t1]
\* q = -.5 * (b - rootDiscrim) if (Float)b < 0, -.5 * (b + rootDiscrim) otherwise.
CylinderQuadraticQOf(b, rootDiscrim) ==
    IF FLt(Midpoint(b), 0)
    THEN IScale(-HalfScale, ISub(b, rootDiscrim))
    ELSE IScale(-HalfScale, IAdd(b, rootDiscrim))
CylinderQuadraticQ(a, c, q) ==
    After(<<q>>, CylinderQuadraticOrder(IDiv(q, a), IDiv(c, q)))
CylinderQuadraticRoot(a, b, c, rootDiscrim) ==
    CylinderQuadraticQ(a, c, CylinderQuadraticQOf(b, rootDiscrim))
\* if (discrim.LowerBound() < 0) return false.
CylinderDiscrimNegative(discrim) == FLt(LowerBound(discrim), 0)
CylinderQuadraticDiscrim(a, b, c, discrim) ==
    IF CylinderDiscrimNegative(discrim) THEN [ok |-> FALSE]
    ELSE CylinderQuadraticRoot(a, b, c, ISqrt(discrim))
\* discrim = 4 * a * (radius + sqrtf) * (radius - sqrtf).
CylinderDiscrimOf(C, a, sqrtf) ==
    IMul(IMul(IScale(4 * Scale, a), IAdd(Exact(C.radius), sqrtf)),
         ISub(Exact(C.radius), sqrtf))
CylinderQuadraticSqrtf(C, a, b, c, sqrtf) ==
    After(<<sqrtf>>, CylinderQuadraticDiscrim(a, b, c, CylinderDiscrimOf(C, a, sqrtf)))
\* sqrtf = Sqrt(SumSquares(fx, fy)) for fx = oi.x - f * di.x, fy likewise.
CylinderSqrtfOf(oi, di, f) ==
    ISqrt(SumSquares2(ISub(oi[1], IMul(f, di[1])), ISub(oi[2], IMul(f, di[2]))))
CylinderQuadraticF(C, oi, di, a, b, c, f) ==
    After(<<f>>, CylinderQuadraticSqrtf(C, a, b, c, CylinderSqrtfOf(oi, di, f)))
CylinderQuadraticABC(C, oi, di, a, b, c) ==
    After(<<a, b, c>>,
          CylinderQuadraticF(C, oi, di, a, b, c, IDiv(b, IScale(2 * Scale, a))))
\* The coefficients a, b and c of the quadratic.
CylinderCoefA(di) == SumSquares2(di[1], di[2])
CylinderCoefB(oi, di) == IScale(2 * Scale, IAdd(IMul(di[1], oi[1]), IMul(di[2], oi[2])))
CylinderCoefC(C, oi) == ISub(SumSquares2(oi[1], oi[2]), ISqr(Exact(C.radius)))
CylinderQuadratic(C, oi, di) ==
    CylinderQuadraticABC(C, oi, di, CylinderCoefA(di), CylinderCoefB(oi, di),
                         CylinderCoefC(C, oi))
\* The discriminant interval CylinderQuadratic computes for the ray (oi, di).
CylinderDiscriminant(C, oi, di) ==
    CylinderDiscrimOf(C, CylinderCoefA(di),
        CylinderSqrtfOf(oi, di,
            IDiv(CylinderCoefB(oi, di), IScale(2 * Scale, CylinderCoefA(di)))))

\* The hit point and phi of Cylinder::BasicIntersect for a root interval.
CylinderHitPhi(pHit) == After(<<pHit>>, [pHit |-> pHit, phi |-> WrapPhi(Atan2(pHit[2], pHit[1]))])
CylinderHitRad(C, pHit, hitRad) ==
    CylinderHitPhi(<<FMul(pHit[1], FDiv(C.radius, hitRad)),
                     FMul(pHit[2], FDiv(C.radius, hitRad)), pHit[3]>>)
CylinderHitOnRay(C, pHit) ==
    After(<<pHit>>,
          CylinderHitRad(C, pHit,
                         FSqrt(FAdd(FMul(pHit[1], pHit[1]), FMul(pHit[2], pHit[2])))))
CylinderHitPoint(C, o, d, tShapeHit) ==
    CylinderHitOnRay(C, RayAt(o, d, Midpoint(tShapeHit)))

\* The test of a cylinder hit against the clipping parameters.
CylinderClipped(C, h) ==
    FLt(h.pHit[3], C.zMin) \/ FGt(h.pHit[3], C.zMax) \/ FGt(h.phi, C.phiMax)

\* Cylinder::BasicIntersect(r, tMax).
CylinderBasicSecond(C, t1, h) ==
    IF CylinderClipped(C, h) THEN None
    ELSE QuadricIntersection(Midpoint(t1), h.pHit, h.phi)
CylinderBasicFirst(C, o, d, t1, tMax, tShapeHit, h) ==
    After(<<h>>,
          IF ~CylinderClipped(C, h)
          THEN QuadricIntersection(Midpoint(tShapeHit), h.pHit, h.phi)
          ELSE IF IEq(tShapeHit, t1) THEN None
          ELSE IF FGt(UpperBound(t1), tMax) THEN None
          ELSE CylinderBasicSecond(C, t1, CylinderHitPoint(C, o, d, t1)))
CylinderBasicNearest(C, o, d, t1, tMax, tShapeHit) ==
    CylinderBasicFirst(C, o, d, t1, tMax, tShapeHit, CylinderHitPoint(C, o, d, tShapeHit))
\* The check of t0 and t1 for the nearest intersection: the root interval
\* the hit is first computed at, if any.
CylinderNearestRootSameTest(t0, t1, tMax) ==
    IF FGt(LowerBound(t0), 0) /\ FLe(UpperBound(t0), tMax) THEN [has |-> TRUE, t |-> t0]
    ELSE IF FGt(LowerBound(t1), 0) /\ FLe(UpperBound(t1), tMax) THEN [has |-> TRUE, t |-> t1]
    ELSE None
CylinderNearestRoot(t0, t1, tMax) ==
    IF FGt(UpperBound(t0), tMax) \/ FLe(LowerBound(t1), 0) THEN None
    ELSE IF FLe(LowerBound(t0), 0)
         THEN IF FGt(UpperBound(t1), tMax) THEN None ELSE [has |-> TRUE, t |-> t1]
         ELSE [has |-> TRUE, t |-> t0]
CylinderBasicChosen(C, o, d, t1, tMax, chosen) ==
    After(<<chosen>>,
          IF ~chosen.has THEN None
          ELSE CylinderBasicNearest(C, o, d, t1, tMax, chosen.t))
CylinderBasicRoots(C, o, d, qd, tMax) ==
    After(<<qd>>,
          IF ~qd.ok THEN None
          ELSE CylinderBasicChosen(C, o, d, qd.t1, tMax,
                 CylinderNearestRoot(qd.t0, qd.t1, tMax)))
CylinderBasicObject(C, oi, di, tMax) ==
    After(<<oi, di>>,
          CylinderBasicRoots(C, MidP(oi), MidP(di), CylinderQuadratic(C, oi, di), tMax))
CylinderBasicIntersect(T, C, r, tMax) ==
    CylinderBasicObject(C, ApplyPi(T[C.objectFromRender], r.o),
                        ApplyVi(T[C.objectFromRender], r.d), tMax)

\* Cylinder::InteractionFromIntersection(isect, wo, time).
CylinderInteractionFromIntersection(T, C, isect, wo, time) ==
    ApplySI(T[C.renderFromObject],
            SurfaceInteraction(isect.pObj,
                <<FDiv(isect.phi, C.phiMax),
                  FDiv(FSub(isect.pObj[3], C.zMin), FSub(C.zMax, C.zMin))>>,
                ApplyV(T[C.objectFromRender], wo),
                <<FMul(FNeg(C.phiMax), isect.pObj[2]), FMul(C.phiMax, isect.pObj[1]), 0>>,
                <<0, 0, FSub(C.zMax, C.zMin)>>,
                time, C.reverseOrientation # C.transformSwapsHandedness))

\* Cylinder::Intersect(ray, tMax).
CylinderIntersectFound(T, C, ray, isect) ==
    After(<<isect>>,
          IF ~isect.has THEN None
          ELSE ShapeIntersection(
                   CylinderInteractionFromIntersection(T, C, isect, VNeg(ray.d), ray.time),
                   isect.tHit))
CylinderIntersect(T, C, ray, tMax) ==
    CylinderIntersectFound(T, C, ray, CylinderBasicIntersect(T, C, ray, tMax))

\* Cylinder::IntersectP(r, tMax).
CylinderIntersectP(T, C, r, tMax) == CylinderBasicIntersect(T, C, r, tMax).has

(***************************************************************************)
(* BilinearPatch                                                           *)
(***************************************************************************)
BilinearIntersection(uv, t) == [has |-> TRUE, uv |-> uv, t |-> t]
\* copysignf(x, s) for a non-negative x; a zero s counts as positive.
CopySign(x, s) == IF FLt(s, 0) THEN FNeg(x) ELSE x
\* The values read from a local that no branch has assigned.
Indeterminate == {-Scale, 0, Scale \div 2, 2 * Scale}

\* The candidate of a root with the products t * det and v * det exchanged.
BilinearRootDetSwapped(ray, pb, n0, n) ==
    [det |-> Dot(n0, n0), tn |-> Dot(n, ray.d), vn |-> Dot(n, pb)]
\* The candidate of one root u of BilinearPatch::Intersect: the products
\* t * det and v * det and det itself.
BilinearRootDet(ray, pb, n0, n) ==
    [det |-> Dot(n0, n0), tn |-> Dot(n, pb), vn |-> Dot(n, ray.d)]
BilinearRootPerp(ray, pa, pb, n0) ==
    After(<<n0>>, BilinearRootDet(ray, pb, n0, Cross(n0, pa)))
BilinearRootOnEdge(ray, pa, pb) ==
    After(<<pa, pb>>, BilinearRootPerp(ray, pa, pb, Cross(ray.d, pb)))
BilinearRoot(ray, uRoot, q00, q10, e00, e11) ==
    BilinearRootOnEdge(ray, VLerp(uRoot, q00, q10), VLerp(uRoot, e00, e11))

\* static BilinearPatch::Intersect(ray, tMax, p00, p10, p01, p11): the set
\* of results the call can return.  It holds more than one result only
\* when u and v are returned without having been assigned.
BilinearResult(tMax, u1, u2, r1, r2, ok1, ok2, t) ==
    IF FGe(t, tMax) THEN {None}
    ELSE IF ok2 THEN {BilinearIntersection(<<u2, FDiv(r2.vn, r2.det)>>, t)}
    ELSE IF ok1 THEN {BilinearIntersection(<<u1, FDiv(r1.vn, r1.det)>>, t)}
    ELSE {BilinearIntersection(<<u, v>>, t) : u \in Indeterminate, v \in Indeterminate}
BilinearSecond(tMax, u1, u2, r1, r2, ok1, ok2, t1, t2) ==
    BilinearResult(tMax, u1, u2, r1, r2, ok1, ok2, IF ok2 THEN t2 ELSE t1)
\* The test of the second root with the comparison with t left out.
BilinearNearerAny(t, t2) == FGt(t2, 0)
\* t > t2 && t2 > 0: the second root replaces what the first root left in t.
BilinearNearer(t, t2) == FGt(t, t2) /\ FGt(t2, 0)
BilinearFirst(tMax, u1, u2, r1, r2, ok1, t1, t2) ==
    After(<<t1, t2>>,
          BilinearSecond(tMax, u1, u2, r1, r2, ok1,
              FLe(0, u2) /\ FLe(u2, Scale) /\ FLe(0, r2.vn) /\ FLe(r2.vn, r2.det)
                  /\ BilinearNearer(t1, t2),
              t1, t2))
BilinearCandidates(tMax, u1, u2, r1, r2, ok1) ==
    BilinearFirst(tMax, u1, u2, r1, r2, ok1,
                  IF ok1 THEN FDiv(r1.tn, r1.det) ELSE tMax, FDiv(r2.tn, r2.det))
BilinearRoots(tMax, u1, u2, r1, r2) ==
    After(<<r1, r2>>,
          BilinearCandidates(tMax, u1, u2, r1, r2,
              FLe(0, u1) /\ FLe(u1, Scale) /\ FGt(r1.tn, 0) /\ FLe(0, r1.vn)
                  /\ FLe(r1.vn, r1.det)))
BilinearU(ray, tMax, e11, e00, q00, q10, u1, u2) ==
    After(<<u1, u2>>,
          BilinearRoots(tMax, u1, u2, BilinearRoot(ray, u1, q00, q10, e00, e11),
                        BilinearRoot(ray, u2, q00, q10, e00, e11)))
\* The two roots u1 and u2 of a + b u + c u^2; u1 is passed as the stable
\* root before its division by c.
BilinearU1(a, b, c, u1) == IF FEq(c, 0) THEN FDiv(FNeg(a), b) ELSE FDiv(u1, c)
BilinearU2(a, c, u1) == IF FEq(c, 0) THEN -Scale ELSE FDiv(a, u1)
BilinearStableRoot(b, det) == FDiv(FSub(FNeg(b), CopySign(FSqrt(det), b)), 2 * Scale)
BilinearSolve(ray, tMax, e11, e00, q00, q10, a, b, c, u1) ==
    BilinearU(ray, tMax, e11, e00, q00, q10, BilinearU1(a, b, c, u1), BilinearU2(a, c, u1))
BilinearDet(ray, tMax, e11, e00, q00, q10, a, b, c, det) ==
    IF FLt(det, 0) THEN {None}
    ELSE BilinearSolve(ray, tMax, e11, e00, q00, q10, a, b, c, BilinearStableRoot(b, det))
BilinearB(ray, tMax, e11, e00, q00, q10, a, b, c) ==
    After(<<b>>,
          BilinearDet(ray, tMax, e11, e00, q00, q10, a, b, c,
                      FSub(FMul(b, b), FMul(FMul(4 * Scale, a), c))))
BilinearAC(ray, tMax, e11, e00, q00, q10, a, c) ==
    After(<<a, c>>,
          BilinearB(ray, tMax, e11, e00, q00, q10, a,
                    FSub(Dot(Cross(q10, ray.d), e11), FAdd(a, c)), c))
BilinearEdges(ray, tMax, qn, e11, e00, q00, q10) ==
    After(<<qn, e11, e00, q00, q10>>,
          BilinearAC(ray, tMax, e11, e00, q00, q10,
                     Dot(Cross(q00, ray.d), e00), Dot(qn, ray.d)))
BilinearPatchIntersect(ray, tMax, p00, p10, p01, p11) ==
    BilinearEdges(ray, tMax, Cross(VSub(p10, p00), VSub(p01, p11)), VSub(p11, p10),
                  VSub(p01, p00), VSub(p00, ray.o), VSub(p10, ray.o))

\* The k-th vertex of a patch of the registry M of bilinear meshes.
PatchVertex(M, blp, k) ==
    M[blp.meshIndex].p[M[blp.meshIndex].vertexIndices[4 * blp.blpIndex + k]]

(***************************************************************************)
(* Sampling routines that the shapes call                                  *)
(***************************************************************************)
PiOver4 == PiOver2 \div 2
\* SampleUniformDiskConcentric(u).
ConcentricPolar(r, cs) == <<FMul(r, cs[1]), FMul(r, cs[2])>>
ConcentricOffset(x, y) ==
    IF x = 0 /\ y = 0 THEN <<0, 0>>
    ELSE IF FGt(FAbs(x), FAbs(y))
         THEN ConcentricPolar(x, CosSin(FMul(PiOver4, FDiv(y, x))))
         ELSE ConcentricPolar(y, CosSin(FSub(PiOver2, FMul(PiOver4, FDiv(x, y)))))
SampleUniformDiskConcentric(u) ==
    ConcentricOffset(FSub(FMul(2 * Scale, u[1]), Scale), FSub(FMul(2 * Scale, u[2]), Scale))
\* SphericalDirection(sinTheta, cosTheta, phi).
SphericalDirection(sinTheta, cosTheta, phi) ==
    <<FMul(Clamp(sinTheta, -Scale, Scale), FCos(phi)),
      FMul(Clamp(sinTheta, -Scale, Scale), FSin(phi)),
      Clamp(cosTheta, -Scale, Scale)>>
\* SampleUniformSphere(u).
SampleUniformSphereZ(z, phi) ==
    SphericalDirection(SafeSqrt(FSub(Scale, FMul(z, z))), z, phi)
SampleUniformSphere(u) ==
    SampleUniformSphereZ(FSub(Scale, FMul(2 * Scale, u[1])), FMul(FMul(2 * Scale, Pi), u[2]))
\* CoordinateSystem(v1, &v2, &v3): <<v2, v3>>.
CoordinateSystemB(v, sign, a, b) ==
    << <<FAdd(Scale, FMul(FMul(sign, Sqr(v[1])), a)), FMul(sign, b), FMul(FNeg(sign), v[1])>>,
       <<b, FAdd(sign, FMul(Sqr(v[2]), a)), FNeg(v[2])>> >>
CoordinateSystemA(v, sign, a) == CoordinateSystemB(v, sign, a, FMul(FMul(v[1], v[2]), a))
CoordinateSystemSign(v, sign) == CoordinateSystemA(v, sign, FDiv(-Scale, FAdd(sign, v[3])))
CoordinateSystem(v) == After(<<v>>, CoordinateSystemSign(v, CopySign(Scale, v[3])))
\* Frame::FromZ(z).FromLocal(v).
FrameFromLocal(xy, z, v) ==
    VAdd(VAdd(VScale(v[1], xy[1]), VScale(v[2], xy[2])), VScale(v[3], z))
FromZFromLocal(z, v) == After(<<z, v>>, FrameFromLocal(CoordinateSystem(z), z, v))
\* FaceForward(n, v).
FaceForward(n, v) == IF FLt(Dot(n, v), 0) THEN VNeg(n) ELSE n
\* if (reverseOrientation) n *= -1.
Oriented(n, reverse) == IF reverse THEN VNeg(n) ELSE n

(***************************************************************************)
(* Sampling of the quadrics                                                *)
(***************************************************************************)
\* The conversion of an area-measure density to solid angle in the
\* PDF(ctx, wi) methods: the steps after the Intersect call, with pRef the
\* point the distance is measured from.
SolidAngleOfHitPdf(pdf) == IF IsInf(pdf) THEN 0 ELSE pdf
\* The conversion that gives a miss the density 1.
SolidAngleOfHitOrMiss(pRef, si, wi, area) ==
    IF ~si.has THEN Scale
    ELSE SolidAngleOfHitPdf(FDiv(DistanceSquared(pRef, si.intr.p),
                                 FMul(AbsDot(si.intr.n, VNeg(wi)), area)))
SolidAngleOfHit(pRef, si, wi, area) ==
    IF ~si.has THEN 0
    ELSE SolidAngleOfHitPdf(FDiv(DistanceSquared(pRef, si.intr.p),
                                 FMul(AbsDot(si.intr.n, VNeg(wi)), area)))
\* ss->intr.time = ctx.time.
AtTime(ss, time) == [ss EXCEPT !.intr.time = time]

\* Disk::Sample(u).
DiskSampleAt(T, D, pd) ==
    ShapeSample(Interaction(MidP(ApplyPi(T[D.renderFromObject],
                                         <<FMul(pd[1], D.radius), FMul(pd[2], D.radius),
                                           D.height>>)),
                            Oriented(Normalize(ApplyN(T[D.renderFromObject], <<0, 0, Scale>>)),
                                     D.reverseOrientation),
                            0),
                FDiv(Scale, DiskArea(D)))
DiskSample(T, D, u) == DiskSampleAt(T, D, SampleUniformDiskConcentric(u))
\* Disk::PDF(const Interaction &).
DiskPDF(D) == FDiv(Scale, DiskArea(D))
\* Disk::Sample(ctx, u).
DiskSampleCtx(T, D, ctx, u) == SolidAngleFromArea(AtTime(DiskSample(T, D, u), ctx.time), ctx)
\* Disk::PDF(ctx, wi).
DiskPDFCtx(T, D, ctx, wi) ==
    SolidAngleOfHit(ctx.p, DiskIntersect(T, D, SpawnRay(ctx, wi), PInf), wi, DiskArea(D))

\* Cylinder::Sample(u).
CylinderSampleOn(T, C, pObj) ==
    After(<<pObj>>,
          ShapeSample(Interaction(MidP(ApplyPi(T[C.renderFromObject], pObj)),
                                  Oriented(Normalize(ApplyN(T[C.renderFromObject],
                                                            <<pObj[1], pObj[2], 0>>)),
                                           C.reverseOrientation),
                                  0),
                      FDiv(Scale, CylinderArea(C))))
CylinderSampleRad(T, C, pObj, hitRad) ==
    CylinderSampleOn(T, C, <<FMul(pObj[1], FDiv(C.radius, hitRad)),
                             FMul(pObj[2], FDiv(C.radius, hitRad)), pObj[3]>>)
CylinderSampleAt(T, C, pObj) ==
    After(<<pObj>>,
          CylinderSampleRad(T, C, pObj,
                            FSqrt(FAdd(FMul(pObj[1], pObj[1]), FMul(pObj[2], pObj[2])))))
CylinderSamplePhi(T, C, z, cs) ==
    CylinderSampleAt(T, C, <<FMul(C.radius, cs[1]), FMul(C.radius, cs[2]), z>>)
CylinderSample(T, C, u) ==
    CylinderSamplePhi(T, C, Lerp(u[1], C.zMin, C.zMax), CosSin(FMul(u[2], C.phiMax)))
\* Cylinder::PDF(const Interaction &).
CylinderPDF(C) == FDiv(Scale, CylinderArea(C))
\* Cylinder::Sample(ctx, u).
CylinderSampleCtx(T, C, ctx, u) ==
    SolidAngleFromArea(AtTime(CylinderSample(T, C, u), ctx.time), ctx)
\* Cylinder::PDF(ctx, wi).
CylinderPDFCtx(T, C, ctx, wi) ==
    SolidAngleOfHit(ctx.p, CylinderIntersect(T, C, SpawnRay(ctx, wi), PInf), wi,
                    CylinderArea(C))

\* Sphere::Sample(u): a uniform point of the full sphere.
SphereSampleOn(T, S, pObj) ==
    After(<<pObj>>,
          ShapeSample(Interaction(MidP(ApplyPi(T[S.renderFromObject], pObj)),
                                  Oriented(Normalize(ApplyN(T[S.renderFromObject], pObj)),
                                           S.reverseOrientation),
                                  0),
                      FDiv(Scale, SphereArea(S))))
SphereSampleAt(T, S, pObj) ==
    After(<<pObj>>,
          SphereSampleOn(T, S, VScale(FDiv(S.radius, Distance(pObj, Zero3)), pObj)))
SphereSample(T, S, u) == SphereSampleAt(T, S, VScale(S.radius, SampleUniformSphere(u)))
\* Sphere::PDF(const Interaction &).
SpherePDF(S) == FDiv(Scale, SphereArea(S))

\* sin^2(1.5 deg), the literal 0.00068523f.
Sin2SmallAngle == 685
\* The test of Sphere::Sample(ctx, u) and Sphere::PDF(ctx, wi) for a
\* reference point inside the sphere.
SphereInside(S, pOrigin, pCenter) ==
    FLe(DistanceSquared(pOrigin, pCenter), FMul(S.radius, S.radius))
\* 1 / (2 * Pi * oneMinusCosThetaMax).
ConePdf(oneMinusCosThetaMax) == FDiv(Scale, FMul(FMul(2 * Scale, Pi), oneMinusCosThetaMax))

\* Sphere::Sample(ctx, u).
SphereSampleNormal(S, ctx, pCenter, oneMinusCosThetaMax, nRender) ==
    After(<<nRender>>,
          ShapeSample(Interaction(VAdd(pCenter, VScale(S.radius, nRender)),
                                  Oriented(nRender, S.reverseOrientation), ctx.time),
                      ConePdf(oneMinusCosThetaMax)))
SphereSampleAlpha(S, ctx, u, pCenter, oneMinusCosThetaMax, cosAlpha) ==
    After(<<cosAlpha>>,
          SphereSampleNormal(S, ctx, pCenter, oneMinusCosThetaMax,
              FromZFromLocal(Normalize(VSub(ctx.p, pCenter)),
                             SphericalDirection(
                                 SafeSqrt(FSub(Scale, FMul(cosAlpha, cosAlpha))),
                                 cosAlpha, FMul(FMul(u[2], 2 * Scale), Pi)))))
SphereSampleTheta(S, ctx, u, pCenter, invSinThetaMax, sinTheta2, cosTheta,
                  oneMinusCosThetaMax) ==
    After(<<sinTheta2, cosTheta>>,
          SphereSampleAlpha(S, ctx, u, pCenter, oneMinusCosThetaMax,
              FAdd(FMul(sinTheta2, invSinThetaMax),
                   FMul(cosTheta,
                        SafeSqrt(FSub(Scale, FMul(FMul(sinTheta2, invSinThetaMax),
                                                  invSinThetaMax)))))))
\* The Taylor expansion for small angles taken whatever the angle.
SphereSampleCosTaylor(S, ctx, u, pCenter, sinThetaMax2, invSinThetaMax, cosThetaMax) ==
    SphereSampleTheta(S, ctx, u, pCenter, invSinThetaMax,
                      FMul(sinThetaMax2, u[1]),
                      FSqrt(FSub(Scale, FMul(sinThetaMax2, u[1]))),
                      FDiv(sinThetaMax2, 2 * Scale))
SphereSampleExact(S, ctx, u, pCenter, invSinThetaMax, cosTheta, oneMinusCosThetaMax) ==
    SphereSampleTheta(S, ctx, u, pCenter, invSinThetaMax,
                      FSub(Scale, FMul(cosTheta, cosTheta)), cosTheta, oneMinusCosThetaMax)
SphereSampleCos(S, ctx, u, pCenter, sinThetaMax2, invSinThetaMax, cosThetaMax) ==
    IF FLt(sinThetaMax2, Sin2SmallAngle)
    THEN SphereSampleTheta(S, ctx, u, pCenter, invSinThetaMax,
                           FMul(sinThetaMax2, u[1]),
                           FSqrt(FSub(Scale, FMul(sinThetaMax2, u[1]))),
                           FDiv(sinThetaMax2, 2 * Scale))
    ELSE SphereSampleExact(S, ctx, u, pCenter, invSinThetaMax,
                           FAdd(FMul(FSub(cosThetaMax, Scale), u[1]), Scale),
                           FSub(Scale, cosThetaMax))
SphereSampleSin2(S, ctx, u, pCenter, sinThetaMax2, invSinThetaMax) ==
    After(<<sinThetaMax2>>,
          SphereSampleCos(S, ctx, u, pCenter, sinThetaMax2, invSinThetaMax,
                          SafeSqrt(FSub(Scale, sinThetaMax2))))
SphereSampleCone(S, ctx, u, pCenter, sinThetaMax) ==
    After(<<sinThetaMax>>,
          SphereSampleSin2(S, ctx, u, pCenter, FMul(sinThetaMax, sinThetaMax),
                           FDiv(Scale, sinThetaMax)))
\* sinThetaMax = radius * (1 / Distance(ctx.p(), pCenter)).
SphereSinThetaMax(S, ctx, pCenter) ==
    FMul(S.radius, FDiv(Scale, Distance(ctx.p, pCenter)))
SphereSampleFrom(T, S, ctx, u, pCenter) ==
    IF SphereInside(S, OffsetRayOriginTo(ctx, pCenter), pCenter)
    THEN SolidAngleFromArea(SphereSample(T, S, u), ctx)
    ELSE SphereSampleCone(S, ctx, u, pCenter, SphereSinThetaMax(S, ctx, pCenter))
SphereSampleCtx(T, S, ctx, u) ==
    SphereSampleFrom(T, S, ctx, u, ApplyP(T[S.renderFromObject], Zero3))

\* Sphere::PDF(ctx, wi).
SpherePDFCos(sinThetaMax2) ==
    ConePdf(IF FLt(sinThetaMax2, Sin2SmallAngle)
            THEN FDiv(sinThetaMax2, 2 * Scale)
            ELSE FSub(Scale, SafeSqrt(FSub(Scale, sinThetaMax2))))
\* PDF(ctx, wi) with the area conversion on both sides of the inside test.
SpherePDFOriginConverted(T, S, ctx, wi, pCenter, pOrigin) ==
    SolidAngleOfHit(pOrigin, SphereIntersect(T, S, MakeRay(pOrigin, wi, 0), PInf),
                    wi, SphereArea(S))
SpherePDFOrigin(T, S, ctx, wi, pCenter, pOrigin) ==
    IF SphereInside(S, pOrigin, pCenter)
    THEN SolidAngleOfHit(pOrigin, SphereIntersect(T, S, MakeRay(pOrigin, wi, 0), PInf),
                         wi, SphereArea(S))
    ELSE SpherePDFCos(FDiv(FMul(S.radius, S.radius), DistanceSquared(ctx.p, pCenter)))
SpherePDFFrom(T, S, ctx, wi, pCenter) ==
    SpherePDFOrigin(T, S, ctx, wi, pCenter, OffsetRayOriginTo(ctx, pCenter))
SpherePDFCtx(T, S, ctx, wi) ==
    SpherePDFFrom(T, S, ctx, wi, ApplyP(T[S.renderFromObject], Zero3))

(***************************************************************************)
(* Triangle                                                                *)
(***************************************************************************)
\* TriangleMesh: positions p, vertexIndices (three per triangle), per-vertex
\* normals n and parametric coordinates uv; an empty n or uv is the null
\* pointer.  Per-vertex tangents s are absent from every mesh.
TriangleMesh(p, vertexIndices, n, uv, reverseOrientation, transformSwapsHandedness) ==
    [p |-> p, vertexIndices |-> vertexIndices, n |-> n, uv |-> uv,
     reverseOrientation |-> reverseOrientation,
     transformSwapsHandedness |-> transformSwapsHandedness]
\* Triangle(meshIndex, triIndex).
MakeTriangle(meshIndex, triIndex) ==
    [kind |-> "Triangle", meshIndex |-> meshIndex, triIndex |-> triIndex]
\* Triangle::GetMesh.
GetMesh(M, tri) == M[tri.meshIndex]
\* mesh->p[v[0]], mesh->p[v[1]], mesh->p[v[2]] with v = &vertexIndices[3 * triIndex].
TriangleVertices(mesh, triIndex) ==
    <<mesh.p[mesh.vertexIndices[3 * triIndex + 1]],
      mesh.p[mesh.vertexIndices[3 * triIndex + 2]],
      mesh.p[mesh.vertexIndices[3 * triIndex + 3]]>>
\* mesh->n[v[0]], mesh->n[v[1]], mesh->n[v[2]].
TriangleNormals(mesh, triIndex) ==
    <<mesh.n[mesh.vertexIndices[3 * triIndex + 1]],
      mesh.n[mesh.vertexIndices[3 * triIndex + 2]],
      mesh.n[mesh.vertexIndices[3 * triIndex + 3]]>>
\* The parametric coordinates of the vertices, or the default ones.
TriangleUVs(mesh, triIndex) ==
    IF mesh.uv # << >>
    THEN <<mesh.uv[mesh.vertexIndices[3 * triIndex + 1]],
           mesh.uv[mesh.vertexIndices[3 * triIndex + 2]],
           mesh.uv[mesh.vertexIndices[3 * triIndex + 3]]>>
    ELSE << <<0, 0>>, <<Scale, 0>>, <<Scale, Scale>> >>
\* mesh->reverseOrientation ^ mesh->transformSwapsHandedness.
MeshFlipsNormalInverted(mesh) == mesh.reverseOrientation = mesh.transformSwapsHandedness
MeshFlipsNormal(mesh) == mesh.reverseOrientation # mesh.transformSwapsHandedness

\* b[0] * a0 + b[1] * a1 + b[2] * a2 for points, vectors and normals.
Blend(b, a) == VAdd(VAdd(VScale(b[1], a[1]), VScale(b[2], a[2])), VScale(b[3], a[3]))
Blend2(b, a) ==
    <<FAdd(FAdd(FMul(b[1], a[1][1]), FMul(b[2], a[2][1])), FMul(b[3], a[3][1])),
      FAdd(FAdd(FMul(b[1], a[1][2]), FMul(b[2], a[2][2])), FMul(b[3], a[3][2]))>>
\* DifferenceOfProducts(a, v, c, w) for vectors v and w.
VDifferenceOfProducts(a, v, c, w) ==
    <<DifferenceOfProducts(a, v[1], c, w[1]), DifferenceOfProducts(a, v[2], c, w[2]),
      DifferenceOfProducts(a, v[3], c, w[3])>>

\* Triangle::Area.
TriangleAreaOf(p) == FMul(HalfScale, Length(Cross(VSub(p[2], p[1]), VSub(p[3], p[1]))))
TriangleArea(M, tri) == TriangleAreaOf(TriangleVertices(GetMesh(M, tri), tri.triIndex))

\* The bound 1e-12 of the parametric determinant, rounded up to the
\* resolution of Float.
UVDeterminantBound == 1
\* A pstd::optional<SurfaceInteraction> that holds a value.
SomeInteraction(isect) == [has |-> TRUE, intr |-> isect]
\* SurfaceInteraction::SetShadingGeometry(ns, ss, ts, dndu, dndv, true).
SetShadingGeometry(isect, ns) ==
    After(<<ns>>, [isect EXCEPT !.ns = ns, !.n = FaceForward(isect.n, ns)])

\* Triangle::InteractionFromIntersection(mesh, triIndex, b, time, wo), with
\* no renderFromInstance.
TriangleInteractionShading(isect, ns) ==
    SomeInteraction(SetShadingGeometry(isect, IF FGt(LengthSquared(ns), 0)
                                              THEN Normalize(ns) ELSE isect.n))
TriangleInteractionNormal(mesh, triIndex, b, isect, n) ==
    After(<<n>>,
          IF mesh.n # << >>
          THEN TriangleInteractionShading([isect EXCEPT !.n = n, !.ns = n],
                                          Blend(b, TriangleNormals(mesh, triIndex)))
          ELSE SomeInteraction([isect EXCEPT !.n = n, !.ns = n]))
\* The normal of the two edges taken in the other order.
TriangleOverrideNSwapped(dp02, dp12) == Normalize(Cross(dp12, dp02))
\* Normal3f(Normalize(Cross(dp02, dp12))), the normal that overrides the one
\* of the SurfaceInteraction constructor.
TriangleOverrideN(dp02, dp12) == Normalize(Cross(dp02, dp12))
TriangleInteractionHit(mesh, triIndex, b, time, wo, p, triuv, dp02, dp12, dpdu, dpdv) ==
    After(<<dpdu, dpdv>>,
          TriangleInteractionNormal(mesh, triIndex, b,
              SurfaceInteraction(Blend(b, p), Blend2(b, triuv), wo, dpdu, dpdv, time,
                                 MeshFlipsNormal(mesh)),
              Oriented(TriangleOverrideN(dp02, dp12), MeshFlipsNormal(mesh))))
TriangleInteractionFrame(mesh, triIndex, b, time, wo, p, triuv, dp02, dp12, frame) ==
    TriangleInteractionHit(mesh, triIndex, b, time, wo, p, triuv, dp02, dp12,
                           frame[1], frame[2])
\* The frame built without the test for a geometric normal of zero length.
TriangleInteractionNgFramed(mesh, triIndex, b, time, wo, p, triuv, dp02, dp12, ng) ==
    TriangleInteractionFrame(mesh, triIndex, b, time, wo, p, triuv, dp02, dp12,
                             CoordinateSystem(Normalize(ng)))
TriangleInteractionNg(mesh, triIndex, b, time, wo, p, triuv, dp02, dp12, ng) ==
    IF FEq(LengthSquared(ng), 0) THEN None
    ELSE TriangleInteractionFrame(mesh, triIndex, b, time, wo, p, triuv, dp02, dp12,
                                  CoordinateSystem(Normalize(ng)))
TriangleInteractionDpdu(mesh, triIndex, b, time, wo, p, triuv, dp02, dp12, dpdu, dpdv) ==
    IF FEq(LengthSquared(Cross(dpdu, dpdv)), 0)
    THEN TriangleInteractionNg(mesh, triIndex, b, time, wo, p, triuv, dp02, dp12,
                               Cross(VSub(p[3], p[1]), VSub(p[2], p[1])))
    ELSE TriangleInteractionHit(mesh, triIndex, b, time, wo, p, triuv, dp02, dp12,
                                dpdu, dpdv)
TriangleInteractionDet(mesh, triIndex, b, time, wo, p, triuv, duv02, duv12, dp02, dp12,
                       determinant) ==
    IF FLt(FAbs(determinant), UVDeterminantBound)
    THEN TriangleInteractionNg(mesh, triIndex, b, time, wo, p, triuv, dp02, dp12,
                               Cross(VSub(p[3], p[1]), VSub(p[2], p[1])))
    ELSE TriangleInteractionDpdu(mesh, triIndex, b, time, wo, p, triuv, dp02, dp12,
             VScale(FDiv(Scale, determinant),
                    VDifferenceOfProducts(duv12[2], dp02, duv02[2], dp12)),
             VScale(FDiv(Scale, determinant),
                    VDifferenceOfProducts(duv02[1], dp12, duv12[1], dp02)))
TriangleInteractionDeltas(mesh, triIndex, b, time, wo, p, triuv, duv02, duv12) ==
    TriangleInteractionDet(mesh, triIndex, b, time, wo, p, triuv, duv02, duv12,
        VSub(p[1], p[3]), VSub(p[2], p[3]),
        DifferenceOfProducts(duv02[1], duv12[2], duv02[2], duv12[1]))
TriangleInteractionUV(mesh, triIndex, b, time, wo, p, triuv) ==
    TriangleInteractionDeltas(mesh, triIndex, b, time, wo, p, triuv,
        <<FSub(triuv[1][1], triuv[3][1]), FSub(triuv[1][2], triuv[3][2])>>,
        <<FSub(triuv[2][1], triuv[3][1]), FSub(triuv[2][2], triuv[3][2])>>)
TriangleInteractionFromIntersection(mesh, triIndex, b, time, wo) ==
    TriangleInteractionUV(mesh, triIndex, b, time, wo, TriangleVertices(mesh, triIndex),
                          TriangleUVs(mesh, triIndex))

\* SampleUniformTriangle(u): the unit square mapped to barycentrics with
\* equal area density.
SampleUniformTriangleB(b0, b1) == <<b0, b1, FSub(FSub(Scale, b0), b1)>>
SampleUniformTriangle(u) ==
    IF FLt(u[1], u[2])
    THEN SampleUniformTriangleB(FDiv(u[1], 2 * Scale), FSub(u[2], FDiv(u[1], 2 * Scale)))
    ELSE SampleUniformTriangleB(FSub(u[1], FDiv(u[2], 2 * Scale)), FDiv(u[2], 2 * Scale))
\* SphericalTriangleArea(a, b, c) of three unit vectors.
SphericalTriangleArea(a, b, c) ==
    FAbs(FMul(2 * Scale,
              Atan2(Dot(a, Cross(b, c)),
                    FAdd(FAdd(FAdd(Scale, Dot(a, b)), Dot(a, c)), Dot(b, c)))))

\* The surface normal of a sampled point of a triangle with barycentrics b:
\* faced towards the interpolated vertex normal when the mesh has normals,
\* and flipped by the orientation of the mesh otherwise.
\* The normal without the flip by the orientation of the mesh.
TriangleSampleUnflipped(mesh, triIndex, b, n) ==
    After(<<n>>,
          IF mesh.n # << >>
          THEN FaceForward(n, Blend(b, TriangleNormals(mesh, triIndex)))
          ELSE n)
TriangleSampleOriented(mesh, triIndex, b, n) ==
    After(<<n>>,
          IF mesh.n # << >>
          THEN FaceForward(n, Blend(b, TriangleNormals(mesh, triIndex)))
          ELSE Oriented(n, MeshFlipsNormal(mesh)))
TriangleSampleNormal(mesh, triIndex, p, b) ==
    TriangleSampleOriented(mesh, triIndex, b,
                           Normalize(Cross(VSub(p[2], p[1]), VSub(p[3], p[1]))))

\* Triangle::Sample(u).
TriangleSampleB(mesh, triIndex, p, b) ==
    After(<<b>>,
          ShapeSample(Interaction(Blend(b, p), TriangleSampleNormal(mesh, triIndex, p, b), 0),
                      FDiv(Scale, TriangleAreaOf(p))))
TriangleSampleOf(mesh, triIndex, u) ==
    TriangleSampleB(mesh, triIndex, TriangleVertices(mesh, triIndex),
                    SampleUniformTriangle(u))
TriangleSample(M, tri, u) == TriangleSampleOf(GetMesh(M, tri), tri.triIndex, u)
\* Triangle::PDF(const Interaction &).
TrianglePDF(M, tri) == FDiv(Scale, TriangleArea(M, tri))

\* Triangle::SolidAngle(p).
TriangleSolidAngleOf(vertices, p) ==
    SphericalTriangleArea(Normalize(VSub(vertices[1], p)), Normalize(VSub(vertices[2], p)),
                          Normalize(VSub(vertices[3], p)))
TriangleSolidAngle(M, tri, p) ==
    TriangleSolidAngleOf(TriangleVertices(GetMesh(M, tri), tri.triIndex), p)
MinSphericalSampleArea == Lit(1, 10000)
MaxSphericalSampleArea == Lit(628, 100)
\* The test of the small solid angles alone.
UsesAreaSamplingSmall(sa) == FLt(sa, MinSphericalSampleArea)
\* sa < MinSphericalSampleArea || sa > MaxSphericalSampleArea.
UsesAreaSampling(sa) == FLt(sa, MinSphericalSampleArea) \/ FGt(sa, MaxSphericalSampleArea)

\* Triangle::Intersect(ray, tMax, p0, p1, p2), the static ray-triangle test:
\* the vertices are translated to the ray origin, permuted so that the
\* largest component of the direction is z, and sheared; the edge functions
\* decide the hit.
TriangleIntersection(b0, b1, b2, t) == [has |-> TRUE, b |-> <<b0, b1, b2>>, t |-> t]
MaxComponentIndex(v) ==
    IF v[1] > v[2] THEN (IF v[1] > v[3] THEN 1 ELSE 3)
    ELSE (IF v[2] > v[3] THEN 2 ELSE 3)
Permute(v, kz) == <<v[(kz % 3) + 1], v[((kz + 1) % 3) + 1], v[kz]>>
Shear(pt, d) ==
    <<FAdd(pt[1], FMul(FDiv(FNeg(d[1]), d[3]), pt[3])),
      FAdd(pt[2], FMul(FDiv(FNeg(d[2]), d[3]), pt[3])),
      FMul(pt[3], FDiv(Scale, d[3]))>>
TriangleHitScaled(tMax, e, det, tScaled) ==
    IF FEq(det, 0) THEN None
    ELSE IF FLt(det, 0) /\ (FGe(tScaled, 0) \/ FLt(tScaled, FMul(tMax, det))) THEN None
    ELSE IF FGt(det, 0) /\ (FLe(tScaled, 0) \/ FGt(tScaled, FMul(tMax, det))) THEN None
    ELSE TriangleIntersection(FMul(e[1], FDiv(Scale, det)), FMul(e[2], FDiv(Scale, det)),
                              FMul(e[3], FDiv(Scale, det)), FMul(tScaled, FDiv(Scale, det)))
TriangleHitEdges(tMax, pt, e) ==
    IF (FLt(e[1], 0) \/ FLt(e[2], 0) \/ FLt(e[3], 0)) /\
       (FGt(e[1], 0) \/ FGt(e[2], 0) \/ FGt(e[3], 0))
    THEN None
    ELSE TriangleHitScaled(tMax, e, FAdd(FAdd(e[1], e[2]), e[3]),
             FAdd(FAdd(FMul(e[1], pt[1][3]), FMul(e[2], pt[2][3])), FMul(e[3], pt[3][3])))
TriangleHitSheared(tMax, pt) ==
    TriangleHitEdges(tMax, pt,
        <<DifferenceOfProducts(pt[2][1], pt[3][2], pt[2][2], pt[3][1]),
          DifferenceOfProducts(pt[3][1], pt[1][2], pt[3][2], pt[1][1]),
          DifferenceOfProducts(pt[1][1], pt[2][2], pt[1][2], pt[2][1])>>)
TriangleHitPermuted(tMax, d, pt) ==
    After(<<d>>, TriangleHitSheared(tMax, <<Shear(pt[1], d), Shear(pt[2], d),
                                            Shear(pt[3], d)>>))
TriangleHitAxis(ray, tMax, p, kz) ==
    TriangleHitPermuted(tMax, Permute(ray.d, kz),
        <<Permute(VSub(p[1], ray.o), kz), Permute(VSub(p[2], ray.o), kz),
          Permute(VSub(p[3], ray.o), kz)>>)
IntersectTriangle(ray, tMax, p) ==
    TriangleHitAxis(ray, tMax, p, MaxComponentIndex(VAbs(ray.d)))

\* Triangle::Intersect(ray, tMax), the member.
TriangleIntersectAt(intr, t) ==
    After(<<intr>>, IF ~intr.has THEN None ELSE ShapeIntersection(intr.intr, t))
TriangleIntersectFound(mesh, triIndex, ray, triIsect) ==
    After(<<triIsect>>,
          IF ~triIsect.has THEN None
          ELSE TriangleIntersectAt(
                   TriangleInteractionFromIntersection(mesh, triIndex, triIsect.b,
                                                       ray.time, VNeg(ray.d)),
                   triIsect.t))
TriangleIntersectOf(mesh, triIndex, ray, tMax) ==
    TriangleIntersectFound(mesh, triIndex, ray,
                           IntersectTriangle(ray, tMax, TriangleVertices(mesh, triIndex)))
TriangleIntersect(M, tri, ray, tMax) ==
    TriangleIntersectOf(GetMesh(M, tri), tri.triIndex, ray, tMax)
\* Triangle::IntersectP(ray, tMax).
TriangleIntersectP(M, tri, ray, tMax) ==
    IntersectTriangle(ray, tMax, TriangleVertices(GetMesh(M, tri), tri.triIndex)).has

\* SampleLinear(u, a, b), SampleBilinear(u, w) and BilinearPDF(p, w): the
\* bilinear importance sampling of the unit square with corner weights w.
OneMinusEpsilon == Scale - 1
SampleLinear(u, a, b) ==
    IF FEq(u, 0) /\ FEq(a, 0) THEN 0
    ELSE FMin(FDiv(FMul(u, FAdd(a, b)), FAdd(a, FSqrt(Lerp(u, Sqr(a), Sqr(b))))),
              OneMinusEpsilon)
SampleBilinearX(u, w, y) ==
    After(<<y>>, <<SampleLinear(u[1], Lerp(y, w[1], w[3]), Lerp(y, w[2], w[4])), y>>)
SampleBilinear(u, w) ==
    SampleBilinearX(u, w, SampleLinear(u[2], FAdd(w[1], w[2]), FAdd(w[3], w[4])))
BilinearPDFSum(p, w, sum) ==
    IF FEq(sum, 0) THEN Scale
    ELSE FDiv(FMul(4 * Scale,
                   FAdd(FAdd(FAdd(FMul(FMul(FSub(Scale, p[1]), FSub(Scale, p[2])), w[1]),
                                  FMul(FMul(p[1], FSub(Scale, p[2])), w[2])),
                             FMul(FMul(FSub(Scale, p[1]), p[2]), w[3])),
                        FMul(FMul(p[1], p[2]), w[4]))),
              sum)
BilinearPDF(p, w) ==
    IF FLt(p[1], 0) \/ FGt(p[1], Scale) \/ FLt(p[2], 0) \/ FGt(p[2], Scale) THEN 0
    ELSE BilinearPDFSum(p, w, FAdd(FAdd(FAdd(w[1], w[2]), w[3]), w[4]))

\* The barycentrics SampleSphericalTriangle may return and the points of the
\* unit square InvertSphericalTriangleSample may return: both routines are
\* known by their contracts only, so that every value of these sets is a
\* possible outcome.
BaryChoices ==
    { <<Scale, 0, 0>>, <<HalfScale, HalfScale \div 2, HalfScale \div 2>>,
      <<HalfScale \div 2, HalfScale \div 2, HalfScale>> }
SquareChoices == { <<0, 0>>, <<HalfScale, HalfScale \div 2>>, <<OneMinusEpsilon, OneMinusEpsilon>> }
\* The density SampleSphericalTriangle reports: that of the uniform
\* distribution over the solid angle, and 0 when there is none.
SphericalTrianglePDF(sa) == IF FGt(sa, 0) THEN FDiv(Scale, sa) ELSE 0

\* The weights of the bilinear warp of Triangle::Sample(ctx, u) and
\* Triangle::PDF(ctx, wi).
\* The weights taken in the order of the vertices.
TriangleWarpWeightsInOrder(ns, wi) ==
    <<FMax(Lit(1, 100), AbsDot(ns, wi[1])), FMax(Lit(1, 100), AbsDot(ns, wi[1])),
      FMax(Lit(1, 100), AbsDot(ns, wi[2])), FMax(Lit(1, 100), AbsDot(ns, wi[3]))>>
TriangleWarpWeightsOf(ns, wi) ==
    <<FMax(Lit(1, 100), AbsDot(ns, wi[2])), FMax(Lit(1, 100), AbsDot(ns, wi[2])),
      FMax(Lit(1, 100), AbsDot(ns, wi[1])), FMax(Lit(1, 100), AbsDot(ns, wi[3]))>>
TriangleWarpWeights(ctx, p) ==
    TriangleWarpWeightsOf(ctx.ns, <<Normalize(VSub(p[1], ctx.p)), Normalize(VSub(p[2], ctx.p)),
                                    Normalize(VSub(p[3], ctx.p))>>)

\* Triangle::Sample(ctx, u): the set of the results it may return.
TriangleSampleWarpPdf(u, w) == After(<<w>>, BilinearPDF(SampleBilinear(u, w), w))
TriangleSampleSpherical(mesh, triIndex, p, ctx, pdf, triPDF) ==
    IF FEq(triPDF, 0) THEN {None}
    ELSE { ShapeSample(Interaction(Blend(b, p), TriangleSampleNormal(mesh, triIndex, p, b),
                                   ctx.time),
                       FMul(pdf, triPDF)) : b \in BaryChoices }
TriangleSampleArea(mesh, triIndex, ctx, u) ==
    {SolidAngleFromArea(AtTime(TriangleSampleOf(mesh, triIndex, u), ctx.time), ctx)}
TriangleSampleSa(mesh, triIndex, p, ctx, u, sa) ==
    IF UsesAreaSampling(sa) THEN TriangleSampleArea(mesh, triIndex, ctx, u)
    ELSE TriangleSampleSpherical(mesh, triIndex, p, ctx,
             IF ctx.ns # Zero3
             THEN FMul(Scale, TriangleSampleWarpPdf(u, TriangleWarpWeights(ctx, p)))
             ELSE Scale,
             SphericalTrianglePDF(sa))
TriangleSampleVertices(mesh, triIndex, p, ctx, u) ==
    TriangleSampleSa(mesh, triIndex, p, ctx, u, TriangleSolidAngleOf(p, ctx.p))
TriangleSampleCtx(M, tri, ctx, u) ==
    TriangleSampleVertices(GetMesh(M, tri), tri.triIndex,
                           TriangleVertices(GetMesh(M, tri), tri.triIndex), ctx, u)

\* Triangle::PDF(ctx, wi): the set of the values it may return.
TrianglePDFArea(M, tri, ctx, wi) ==
    {SolidAngleOfHit(ctx.p, TriangleIntersect(M, tri, SpawnRay(ctx, wi), PInf), wi,
                     TriangleArea(M, tri))}
TrianglePDFWarped(pdf, w) == After(<<w>>, { FMul(pdf, BilinearPDF(u, w)) : u \in SquareChoices })
TrianglePDFHit(p, ctx, sa, hit) ==
    IF ~hit THEN {0}
    ELSE IF ctx.ns # Zero3
    THEN TrianglePDFWarped(FDiv(Scale, sa), TriangleWarpWeights(ctx, p))
    ELSE {FDiv(Scale, sa)}
TrianglePDFSpherical(M, tri, p, ctx, wi, sa) ==
    TrianglePDFHit(p, ctx, sa, TriangleIntersectP(M, tri, SpawnRay(ctx, wi), PInf))
TrianglePDFSa(M, tri, p, ctx, wi, sa) ==
    IF UsesAreaSampling(sa) THEN TrianglePDFArea(M, tri, ctx, wi)
    ELSE TrianglePDFSpherical(M, tri, p, ctx, wi, sa)
TrianglePDFCtx(M, tri, ctx, wi) ==
    TrianglePDFSa(M, tri, TriangleVertices(GetMesh(M, tri), tri.triIndex), ctx, wi,
                  TriangleSolidAngle(M, tri, ctx.p))

(***************************************************************************)
(* Bounds and the dispatch of the shape handle                             *)
(***************************************************************************)
Bounds3(pMin, pMax) == [pMin |-> pMin, pMax |-> pMax]
VMin(a, b) == <<FMin(a[1], b[1]), FMin(a[2], b[2]), FMin(a[3], b[3])>>
VMax(a, b) == <<FMax(a[1], b[1]), FMax(a[2], b[2]), FMax(a[3], b[3])>>
\* A transform applied to a box.
ApplyBounds(T, b) ==
    Bounds3(VMin(ApplyP(T, b.pMin), ApplyP(T, b.pMax)),
            VMax(ApplyP(T, b.pMin), ApplyP(T, b.pMax)))
\* Sphere::Bounds, Disk::Bounds, Cylinder::Bounds and Triangle::Bounds.
SphereBounds(T, S) ==
    ApplyBounds(T[S.renderFromObject],
                Bounds3(<<-S.radius, -S.radius, S.zMin>>, <<S.radius, S.radius, S.zMax>>))
DiskBounds(T, D) ==
    ApplyBounds(T[D.renderFromObject],
                Bounds3(<<-D.radius, -D.radius, D.height>>, <<D.radius, D.radius, D.height>>))
CylinderBounds(T, C) ==
    ApplyBounds(T[C.renderFromObject],
                Bounds3(<<-C.radius, -C.radius, C.zMin>>, <<C.radius, C.radius, C.zMax>>))
TriangleBoundsOf(p) ==
    Bounds3(VMin(VMin(p[1], p[2]), p[3]), VMax(VMax(p[1], p[2]), p[3]))
TriangleBounds(M, tri) == TriangleBoundsOf(TriangleVertices(GetMesh(M, tri), tri.triIndex))
\* DirectionCone(w) and DirectionCone::EntireSphere().
DirectionCone(w) == [w |-> w, cosTheta |-> Scale]
EntireSphere == [w |-> <<0, 0, Scale>>, cosTheta |-> -Scale]
\* Sphere::NormalBounds and Cylinder::NormalBounds.
SphereNormalBounds == EntireSphere
CylinderNormalBounds == EntireSphere
\* Disk::NormalBounds and Triangle::NormalBounds.
DiskNormalBounds(T, D) ==
    DirectionCone(Oriented(Normalize(ApplyN(T[D.renderFromObject], <<0, 0, Scale>>)),
                           D.reverseOrientation))
TriangleNormalBounds(M, tri) ==
    DirectionCone(TriangleSampleNormal(GetMesh(M, tri), tri.triIndex,
                                       TriangleVertices(GetMesh(M, tri), tri.triIndex),
                                       <<Scale, Scale, Scale>>))

\* ShapeHandle::Bounds, NormalBounds, Intersect, IntersectP, Area, Sample(u),
\* PDF(interaction), Sample(ctx, u) and PDF(ctx, wi).  The last two give the
\* set of the values the call may return.
HandleBounds(T, M, s) ==
    CASE s.kind = "Sphere" -> SphereBounds(T, s)
      [] s.kind = "Disk" -> DiskBounds(T, s)
      [] s.kind = "Cylinder" -> CylinderBounds(T, s)
      [] s.kind = "Triangle" -> TriangleBounds(M.triangle, s)
HandleNormalBounds(T, M, s) ==
    CASE s.kind = "Sphere" -> SphereNormalBounds
      [] s.kind = "Disk" -> DiskNormalBounds(T, s)
      [] s.kind = "Cylinder" -> CylinderNormalBounds
      [] s.kind = "Triangle" -> TriangleNormalBounds(M.triangle, s)
HandleIntersect(T, M, s, ray, tMax) ==
    CASE s.kind = "Sphere" -> SphereIntersect(T, s, ray, tMax)
      [] s.kind = "Disk" -> DiskIntersect(T, s, ray, tMax)
      [] s.kind = "Cylinder" -> CylinderIntersect(T, s, ray, tMax)
      [] s.kind = "Triangle" -> TriangleIntersect(M.triangle, s, ray, tMax)
HandleIntersectP(T, M, s, ray, tMax) ==
    CASE s.kind = "Sphere" -> SphereIntersectP(T, s, ray, tMax)
      [] s.kind = "Disk" -> DiskIntersectP(T, s, ray, tMax)
      [] s.kind = "Cylinder" -> CylinderIntersectP(T, s, ray, tMax)
      [] s.kind = "Triangle" -> TriangleIntersectP(M.triangle, s, ray, tMax)
HandleArea(T, M, s) ==
    CASE s.kind = "Sphere" -> SphereArea(s)
      [] s.kind = "Disk" -> DiskArea(s)
      [] s.kind = "Cylinder" -> CylinderArea(s)
      [] s.kind = "Triangle" -> TriangleArea(M.triangle, s)
HandleSample(T, M, s, u) ==
    CASE s.kind = "Sphere" -> SphereSample(T, s, u)
      [] s.kind = "Disk" -> DiskSample(T, s, u)
      [] s.kind = "Cylinder" -> CylinderSample(T, s, u)
      [] s.kind = "Triangle" -> TriangleSample(M.triangle, s, u)
HandlePDF(T, M, s) ==
    CASE s.kind = "Sphere" -> SpherePDF(s)
      [] s.kind = "Disk" -> DiskPDF(s)
      [] s.kind = "Cylinder" -> CylinderPDF(s)
      [] s.kind = "Triangle" -> TrianglePDF(M.triangle, s)
HandleSampleCtx(T, M, s, ctx, u) ==
    CASE s.kind = "Sphere" -> {SphereSampleCtx(T, s, ctx, u)}
      [] s.kind = "Disk" -> {DiskSampleCtx(T, s, ctx, u)}
      [] s.kind = "Cylinder" -> {CylinderSampleCtx(T, s, ctx, u)}
      [] s.kind = "Triangle" -> TriangleSampleCtx(M.triangle, s, ctx, u)
HandlePDFCtx(T, M, s, ctx, wi) ==
    CASE s.kind = "Sphere" -> {SpherePDFCtx(T, s, ctx, wi)}
      [] s.kind = "Disk" -> {DiskPDFCtx(T, s, ctx, wi)}
      [] s.kind = "Cylinder" -> {CylinderPDFCtx(T, s, ctx, wi)}
      [] s.kind = "Triangle" -> TrianglePDFCtx(M.triangle, s, ctx, wi)

(***************************************************************************)
(* The calls between the methods and the roots they examine                *)
(***************************************************************************)
\* A call of a method of the shape with its arguments, and no call.
Call(method, args) == [has |-> TRUE, method |-> method, args |-> args]
\* The arguments of the Intersect and IntersectP calls of PDF(ctx, wi).
TracedFrom(a, ray) == [a EXCEPT !.ray = ray, !.tMax = PInf]

\* The call Sphere::Sample(ctx, u) and Sphere::PDF(ctx, wi) make when the
\* reference point is inside the sphere.
SphereCalleeFrom(S, method, a, pCenter, pOrigin) ==
    IF ~SphereInside(S, pOrigin, pCenter) THEN None
    ELSE IF method = "SampleCtx" THEN Call("Sample", a)
    ELSE Call("Intersect", TracedFrom(a, MakeRay(pOrigin, a.wi, 0)))
SphereCalleeAt(S, method, a, pCenter) ==
    SphereCalleeFrom(S, method, a, pCenter, OffsetRayOriginTo(a.ctx, pCenter))
SphereCallee(T, S, method, a) ==
    SphereCalleeAt(S, method, a, ApplyP(T[S.renderFromObject], Zero3))
\* The call Disk::Sample(ctx, u) and Disk::PDF(ctx, wi) make.
DiskCallee(method, a) ==
    IF method = "SampleCtx" THEN Call("Sample", a)
    ELSE Call("Intersect", TracedFrom(a, SpawnRay(a.ctx, a.wi)))
\* The call Cylinder::Sample(ctx, u) and Cylinder::PDF(ctx, wi) make.
CylinderCallee(method, a) ==
    IF method = "SampleCtx" THEN Call("Sample", a)
    ELSE Call("Intersect", TracedFrom(a, SpawnRay(a.ctx, a.wi)))
\* The call Triangle::Sample(ctx, u) and Triangle::PDF(ctx, wi) make.
TriangleCalleeSa(method, a, sa) ==
    IF method = "SampleCtx"
    THEN (IF UsesAreaSampling(sa) THEN Call("Sample", a) ELSE None)
    ELSE Call(IF UsesAreaSampling(sa) THEN "Intersect" ELSE "IntersectP",
              TracedFrom(a, SpawnRay(a.ctx, a.wi)))
TriangleCallee(M, tri, method, a) ==
    TriangleCalleeSa(method, a, TriangleSolidAngle(M, tri, a.ctx.p))
\* The call a method of the shape handle makes to another of its methods.
Callee(T, M, s, method, a) ==
    IF method \notin {"SampleCtx", "PDFCtx"} THEN None
    ELSE CASE s.kind = "Sphere" -> SphereCallee(T, s, method, a)
           [] s.kind = "Disk" -> DiskCallee(method, a)
           [] s.kind = "Cylinder" -> CylinderCallee(method, a)
           [] s.kind = "Triangle" -> TriangleCallee(M.triangle, s, method, a)

\* The values Sample(ctx, u) and PDF(ctx, wi) may return once the call they
\* made has returned r.
SphereResume(T, S, method, a, r) ==
    IF method = "SampleCtx" THEN {SolidAngleFromArea(r, a.ctx)}
    ELSE {SolidAngleOfHit(OffsetRayOriginTo(a.ctx, ApplyP(T[S.renderFromObject], Zero3)),
                          r, a.wi, SphereArea(S))}
DiskResume(D, method, a, r) ==
    IF method = "SampleCtx" THEN {SolidAngleFromArea(AtTime(r, a.ctx.time), a.ctx)}
    ELSE {SolidAngleOfHit(a.ctx.p, r, a.wi, DiskArea(D))}
CylinderResume(C, method, a, r) ==
    IF method = "SampleCtx" THEN {SolidAngleFromArea(AtTime(r, a.ctx.time), a.ctx)}
    ELSE {SolidAngleOfHit(a.ctx.p, r, a.wi, CylinderArea(C))}
TriangleResumeSa(M, tri, method, a, r, sa) ==
    IF method = "SampleCtx" THEN {SolidAngleFromArea(AtTime(r, a.ctx.time), a.ctx)}
    ELSE IF UsesAreaSampling(sa) THEN {SolidAngleOfHit(a.ctx.p, r, a.wi, TriangleArea(M, tri))}
    ELSE TrianglePDFHit(TriangleVertices(GetMesh(M, tri), tri.triIndex), a.ctx, sa, r)
TriangleResume(M, tri, method, a, r) ==
    TriangleResumeSa(M, tri, method, a, r, TriangleSolidAngle(M, tri, a.ctx.p))
Resume(T, M, s, method, a, r) ==
    CASE s.kind = "Sphere" -> SphereResume(T, s, method, a, r)
      [] s.kind = "Disk" -> DiskResume(s, method, a, r)
      [] s.kind = "Cylinder" -> CylinderResume(s, method, a, r)
      [] s.kind = "Triangle" -> TriangleResume(M.triangle, s, method, a, r)

\* The values a method of the shape handle may return for the arguments a,
\* and those of the static BilinearPatch::Intersect.
Evaluate(T, M, s, method, a) ==
    CASE method = "Bounds" -> {HandleBounds(T, M, s)}
      [] method = "NormalBounds" -> {HandleNormalBounds(T, M, s)}
      [] method = "Intersect" -> {HandleIntersect(T, M, s, a.ray, a.tMax)}
      [] method = "IntersectP" -> {HandleIntersectP(T, M, s, a.ray, a.tMax)}
      [] method = "Area" -> {HandleArea(T, M, s)}
      [] method = "Sample" -> {HandleSample(T, M, s, a.u)}
      [] method = "PDF" -> {HandlePDF(T, M, s)}
      [] method = "SampleCtx" -> HandleSampleCtx(T, M, s, a.ctx, a.u)
      [] method = "PDFCtx" -> HandlePDFCtx(T, M, s, a.ctx, a.wi)
      [] method = "BilinearIntersect" ->
             BilinearPatchIntersect(a.ray, a.tMax, PatchVertex(M.bilinear, s, 1),
                                    PatchVertex(M.bilinear, s, 2),
                                    PatchVertex(M.bilinear, s, 3),
                                    PatchVertex(M.bilinear, s, 4))

\* The number of roots of its quadratic that a call examines.  In
\* Sphere::BasicIntersect and Cylinder::BasicIntersect a root is examined
\* when its hit point is computed and tested against the clipping range.
SphereRootsFirst(S, o, d, t1, tMax, tShapeHit) ==
    IF ~SphereClipped(S, SphereHitPoint(S, o, d, tShapeHit)) THEN 1
    ELSE IF IEq(tShapeHit, t1) THEN 1
    ELSE IF FGt(UpperBound(t1), tMax) THEN 1
    ELSE 2
SphereRootsOf(S, o, d, qd, tMax) ==
    After(<<qd>>,
          IF ~qd.ok THEN 0
          ELSE IF FGt(UpperBound(qd.t0), tMax) \/ FLe(LowerBound(qd.t1), 0) THEN 0
          ELSE IF FLe(LowerBound(qd.t0), 0) /\ FGt(UpperBound(qd.t1), tMax) THEN 0
          ELSE SphereRootsFirst(S, o, d, qd.t1, tMax,
                                IF FLe(LowerBound(qd.t0), 0) THEN qd.t1 ELSE qd.t0))
SphereRootsObject(S, oi, di, tMax) ==
    After(<<oi, di>>, SphereRootsOf(S, MidP(oi), MidP(di), SphereQuadratic(S, oi, di), tMax))
SphereRootsTried(T, S, r, tMax) ==
    SphereRootsObject(S, ApplyPi(T[S.objectFromRender], r.o),
                      ApplyVi(T[S.objectFromRender], r.d), tMax)
CylinderRootsFirst(C, o, d, t1, tMax, tShapeHit) ==
    IF ~CylinderClipped(C, CylinderHitPoint(C, o, d, tShapeHit)) THEN 1
    ELSE IF IEq(tShapeHit, t1) THEN 1
    ELSE IF FGt(UpperBound(t1), tMax) THEN 1
    ELSE 2
CylinderRootsOf(C, o, d, qd, tMax) ==
    After(<<qd>>,
          IF ~qd.ok THEN 0
          ELSE IF FGt(UpperBound(qd.t0), tMax) \/ FLe(LowerBound(qd.t1), 0) THEN 0
          ELSE IF FLe(LowerBound(qd.t0), 0) /\ FGt(UpperBound(qd.t1), tMax) THEN 0
          ELSE CylinderRootsFirst(C, o, d, qd.t1, tMax,
                                  IF FLe(LowerBound(qd.t0), 0) THEN qd.t1 ELSE qd.t0))
CylinderRootsObject(C, oi, di, tMax) ==
    After(<<oi, di>>,
          CylinderRootsOf(C, MidP(oi), MidP(di), CylinderQuadratic(C, oi, di), tMax))
CylinderRootsTried(T, C, r, tMax) ==
    CylinderRootsObject(C, ApplyPi(T[C.objectFromRender], r.o),
                        ApplyVi(T[C.objectFromRender], r.d), tMax)
\* BilinearPatch::Intersect examines both roots u1 and u2 of its quadratic
\* in u unless the discriminant is negative.
BilinearDiscriminant(a, b, c) == FSub(FMul(b, b), FMul(FMul(4 * Scale, a), c))
BilinearRootsAC(ray, e11, q10, a, c) ==
    After(<<a, c>>,
          IF FLt(BilinearDiscriminant(a, FSub(Dot(Cross(q10, ray.d), e11), FAdd(a, c)), c), 0)
          THEN 0 ELSE 2)
BilinearRootsEdges(ray, qn, e11, e00, q00, q10) ==
    After(<<qn, e11, e00, q00, q10>>,
          BilinearRootsAC(ray, e11, q10, Dot(Cross(q00, ray.d), e00), Dot(qn, ray.d)))
BilinearRootsTried(ray, p00, p10, p01, p11) ==
    BilinearRootsEdges(ray, Cross(VSub(p10, p00), VSub(p01, p11)), VSub(p11, p10),
                       VSub(p01, p00), VSub(p00, ray.o), VSub(p10, ray.o))
\* The roots a method of the shape handle examines itself, not counting the
\* calls it makes.  The disk and the triangle solve no quadratic.
RootsTried(T, M, s, method, a) ==
    IF method = "BilinearIntersect"
    THEN BilinearRootsTried(a.ray, PatchVertex(M.bilinear, s, 1), PatchVertex(M.bilinear, s, 2),
                            PatchVertex(M.bilinear, s, 3), PatchVertex(M.bilinear, s, 4))
    ELSE IF method \notin {"Intersect", "IntersectP"} THEN 0
    ELSE CASE s.kind = "Sphere" -> SphereRootsTried(T, s, a.ray, a.tMax)
           [] s.kind = "Cylinder" -> CylinderRootsTried(T, s, a.ray, a.tMax)
           [] OTHER -> 0

(***************************************************************************)
(* State                                                                   *)
(***************************************************************************)
\* transforms: the table of transforms the shapes point into.
\* meshes:     the registries of triangle and bilinear-patch meshes.
\* shape:      the shape under evaluation, as constructed.
\* inp:        the arguments of the calls.
\* out:        the value returned by each call made so far, by method name.
\* threads:    the call stack and the result of each concurrent evaluation.
VARIABLES transforms, meshes, shape, inp, out, threads
vars == <<transforms, meshes, shape, inp, out, threads>>

NoResults == [m \in {} |-> None]
NoThreads == [t \in {} |-> None]
Put(f, k, v) == [m \in DOMAIN f \cup {k} |-> IF m = k THEN v ELSE f[m]]
Called(m) == m \in DOMAIN out

\* Bounds of the input grids.
GridMax == 1
HalfUnit == Scale \div 2

Identity == MakeTransform(FALSE, Zero3)
Translate(v) == MakeTransform(FALSE, v)
Reflect == MakeTransform(TRUE, Zero3)
\* Odd entries are render-from-object, the following even entry its inverse.
TransformTable ==
    <<Identity, Inverse(Identity),
      Translate(<<0, 0, HalfUnit>>), Inverse(Translate(<<0, 0, HalfUnit>>)),
      Reflect, Inverse(Reflect)>>

UnitSphere == MakeSphere(TransformTable, 1, 2, FALSE, Scale, -Scale, Scale, 360)
PartialSphere ==
    MakeSphere(TransformTable, 5, 6, TRUE, Scale, -HalfUnit, HalfUnit, 180)
MovedSphere ==
    MakeSphere(TransformTable, 3, 4, FALSE, HalfUnit, -HalfUnit, HalfUnit, 360)
UnitDisk == MakeDisk(TransformTable, 1, 2, FALSE, 0, Scale, 0, 360)
Annulus == MakeDisk(TransformTable, 3, 4, TRUE, HalfUnit, 2 * Scale, HalfUnit, 270)
UnitCylinder == MakeCylinder(TransformTable, 1, 2, FALSE, Scale, -Scale, Scale, 360)
PartialCylinder ==
    MakeCylinder(TransformTable, 5, 6, FALSE, Scale, 0, 2 * Scale, 90)
Quadrics ==
    {UnitSphere, PartialSphere, MovedSphere, UnitDisk, Annulus, UnitCylinder,
     PartialCylinder}

\* BilinearPatchMesh and BilinearPatch(meshIndex, blpIndex).
QuadMesh ==
    [p |-> << <<0, 0, 0>>, <<Scale, 0, 0>>, <<0, Scale, 0>>, <<Scale, Scale, 0>>,
              <<Scale, Scale, Scale>>, <<2 * Scale, Scale, 0>> >>,
     vertexIndices |-> <<1, 2, 3, 4, 1, 2, 3, 5, 1, 2, 3, 6>>,
     reverseOrientation |-> FALSE,
     transformSwapsHandedness |-> FALSE]
MakeBilinearPatch(meshIndex, blpIndex) ==
    [kind |-> "BilinearPatch", meshIndex |-> meshIndex, blpIndex |-> blpIndex]

\* Triangle meshes: a mesh without per-vertex data, the same mesh with the
\* orientation reversed, and a mesh whose vertex normals oppose the
\* geometric normal and whose parametric coordinates are collinear.  The
\* second triangle of each mesh has collinear vertices.
MeshPoints == << <<0, 0, 0>>, <<Scale, 0, 0>>, <<0, Scale, 0>>, <<2 * Scale, 0, 0>> >>
MeshIndices == <<1, 2, 3, 1, 2, 4>>
PlainMesh == TriangleMesh(MeshPoints, MeshIndices, << >>, << >>, FALSE, FALSE)
ReversedMesh == TriangleMesh(MeshPoints, MeshIndices, << >>, << >>, TRUE, FALSE)
MirroredMesh == TriangleMesh(MeshPoints, MeshIndices, << >>, << >>, TRUE, TRUE)
NormalsMesh ==
    TriangleMesh(MeshPoints, MeshIndices,
                 << <<0, 0, -Scale>>, <<0, 0, -Scale>>, <<0, 0, -Scale>>, <<0, 0, -Scale>> >>,
                 << <<0, 0>>, <<HalfUnit, HalfUnit>>, <<Scale, Scale>>,
                    <<HalfUnit \div 2, HalfUnit \div 2>> >>,
                 FALSE, FALSE)
TriangleMeshes == <<PlainMesh, ReversedMesh, MirroredMesh, NormalsMesh>>
Triangles == {MakeTriangle(m, i) : m \in 1 .. 4, i \in 0 .. 1}
\* The registries Triangle::allMeshes and BilinearPatch::allMeshes.
AllMeshes == [triangle |-> TriangleMeshes, bilinear |-> <<QuadMesh>>]

UnitQuad == MakeBilinearPatch(1, 0)
Patches == {MakeBilinearPatch(1, i) : i \in 0 .. 2}

RayTime == Scale \div 4
DiskRay == MakeRay(<<300000, 400000, Scale>>, <<0, 0, -Scale>>, RayTime)
QuadRay == MakeRay(<<700000, 600000, Scale>>, <<0, 0, -Scale>>, RayTime)
RayOrigins ==
    {<<i * HalfUnit, j * HalfUnit, k * 3 * Scale>> :
        i \in -GridMax .. GridMax, j \in -GridMax .. GridMax, k \in -1 .. 1}
RayDirections ==
    {<<0, 0, Scale>>, <<0, 0, -Scale>>, <<Scale, 0, 0>>, <<0, -Scale, 0>>,
     <<600000, 0, -800000>>}
\* A ray along y that touches the cylinders of radius 1 at x = 1.
TangentRay == MakeRay(<<Scale, -2 * Scale, HalfUnit>>, <<0, Scale, 0>>, RayTime)
\* Rays that enter the partial sphere and the partial cylinder where they
\* are clipped away and leave them where they are not.
CapRay == MakeRay(<<0, HalfUnit \div 2, 3 * HalfUnit>>, <<600000, 0, -800000>>, RayTime)
SweepRay == MakeRay(<<2 * Scale, HalfUnit, Scale>>, <<-Scale, 0, 0>>, RayTime)
\* A ray down the z axis of the unit sphere, off it by the least positive
\* Float.
PoleRay == MakeRay(<<1, 0, 3 * Scale>>, <<0, 0, -Scale>>, RayTime)
\* Rays at the height 3/16 that cross the patch z = x y twice, at
\* (1/4, 3/4) and at (3/4, 1/4), in either order.
TwiceRay == MakeRay(<<-HalfUnit, 3 * HalfUnit, 187500>>, <<Scale, -Scale, 0>>, RayTime)
TwiceBackRay == MakeRay(<<3 * HalfUnit, -HalfUnit, 187500>>, <<-Scale, Scale, 0>>, RayTime)
\* A ray down onto the patches from the least positive Float above them,
\* with a direction of length 4.
GrazeRay == MakeRay(<<HalfUnit, HalfUnit, 1>>, <<0, 0, -4 * Scale>>, RayTime)
Rays ==
    {MakeRay(o, d, RayTime) : o \in RayOrigins, d \in RayDirections}
        \cup {DiskRay, QuadRay, TangentRay, CapRay, SweepRay, PoleRay, TwiceRay, TwiceBackRay,
              GrazeRay}
TMaxs == {PInf, 2 * Scale, 5 * Scale}

(***************************************************************************)
(* Intersection calls                                                      *)
(***************************************************************************)
InitIntersect ==
    /\ transforms = TransformTable
    /\ meshes = AllMeshes
    /\ shape \in Quadrics \cup Patches
    /\ inp \in [ray : Rays, tMax : TMaxs]
    /\ out = NoResults
    /\ threads = NoThreads

\* The quadric cases of ShapeHandle::Intersect and ShapeHandle::IntersectP.
BasicIntersect(T, s, r, tMax) ==
    CASE s.kind = "Sphere" -> SphereBasicIntersect(T, s, r, tMax)
      [] s.kind = "Disk" -> DiskBasicIntersect(T, s, r, tMax)
      [] s.kind = "Cylinder" -> CylinderBasicIntersect(T, s, r, tMax)
Intersect(T, s, r, tMax) ==
    CASE s.kind = "Sphere" -> SphereIntersect(T, s, r, tMax)
      [] s.kind = "Disk" -> DiskIntersect(T, s, r, tMax)
      [] s.kind = "Cylinder" -> CylinderIntersect(T, s, r, tMax)
\* IntersectP with the tMax bound left out of the test.
IntersectPUnbounded(T, s, r, tMax) == BasicIntersect(T, s, r, PInf).has
IntersectP(T, s, r, tMax) ==
    CASE s.kind = "Sphere" -> SphereIntersectP(T, s, r, tMax)
      [] s.kind = "Disk" -> DiskIntersectP(T, s, r, tMax)
      [] s.kind = "Cylinder" -> CylinderIntersectP(T, s, r, tMax)

IsQuadric(s) == s.kind \in {"Sphere", "Disk", "Cylinder"}

CallIntersect ==
    /\ IsQuadric(shape)
    /\ ~Called("Intersect")
    /\ out' = Put(out, "Intersect", Intersect(transforms, shape, inp.ray, inp.tMax))
    /\ UNCHANGED <<transforms, meshes, shape, inp, threads>>

CallIntersectP ==
    /\ IsQuadric(shape)
    /\ ~Called("IntersectP")
    /\ out' = Put(out, "IntersectP",
                  IntersectP(transforms, shape, inp.ray, inp.tMax))
    /\ UNCHANGED <<transforms, meshes, shape, inp, threads>>

CallBilinearPatchIntersect ==
    /\ shape.kind = "BilinearPatch"
    /\ ~Called("BilinearIntersect")
    /\ \E r \in BilinearPatchIntersect(inp.ray, inp.tMax,
                    PatchVertex(meshes.bilinear, shape, 1),
                    PatchVertex(meshes.bilinear, shape, 2),
                    PatchVertex(meshes.bilinear, shape, 3),
                    PatchVertex(meshes.bilinear, shape, 4)) :
           out' = Put(out, "BilinearIntersect", r)
    /\ UNCHANGED <<transforms, meshes, shape, inp, threads>>

NextIntersect == CallIntersect \/ CallIntersectP \/ CallBilinearPatchIntersect
SpecIntersect == InitIntersect /\ [][NextIntersect]_vars

(***************************************************************************)
(* Sampling calls                                                          *)
(***************************************************************************)
\* Reference points: above and in the plane of the disks, below, inside and
\* far from the spheres, above, in and just above the plane of the triangles,
\* one step of the Float resolution above the plane of the unit disk.
ContextPoints ==
    { <<0, 0, 2 * Scale>>, <<2 * Scale, 0, 0>>, <<0, 0, -5 * Scale>>, <<0, 0, HalfUnit>>,
      <<0, 0, 20 * Scale + HalfUnit>>, <<HalfUnit \div 2, HalfUnit \div 2, Scale>>,
      <<2 * Scale, 2 * Scale, 0>>, <<HalfUnit \div 2, HalfUnit \div 2, Lit(1, 10000)>>,
      <<2 * Scale, 0, 1>> }
ContextTime == 2 * RayTime
\* A reference point in a medium (no normal) and one on a surface.
Contexts ==
    {ShapeSampleContext(p, Zero3, Zero3, Zero3, ContextTime) : p \in ContextPoints}
        \cup {ShapeSampleContext(p, <<Lit(1, 10000), Lit(1, 10000), Lit(1, 10000)>>,
                                 <<0, 0, -Scale>>, <<0, 0, -Scale>>, ContextTime) :
                  p \in ContextPoints}
SamplePoints ==
    { <<HalfUnit, HalfUnit \div 2>>, <<HalfUnit \div 2, HalfUnit>>, <<0, 0>>,
      <<3 * (HalfUnit \div 2), OneMinusEpsilon>>, <<Lit(7, 10), Lit(4, 10)>> }
\* Down, up and sideways at a grazing angle.
SampleDirections == { <<0, 0, -Scale>>, <<0, 0, Scale>>, <<-Scale, 0, -1>> }

InitSample ==
    /\ transforms = TransformTable
    /\ meshes = AllMeshes
    /\ shape \in Quadrics \cup Triangles
    /\ inp \in [ctx : Contexts, u : SamplePoints, wi : SampleDirections]
    /\ out = NoResults
    /\ threads = NoThreads

CallSample ==
    /\ out = NoResults
    /\ out' = Put(out, "Sample", HandleSample(transforms, meshes, shape, inp.u))
    /\ UNCHANGED <<transforms, meshes, shape, inp, threads>>

CallSampleCtx ==
    /\ out = NoResults
    /\ \E ss \in HandleSampleCtx(transforms, meshes, shape, inp.ctx, inp.u) :
           out' = Put(out, "SampleCtx", ss)
    /\ UNCHANGED <<transforms, meshes, shape, inp, threads>>

CallPDFCtx ==
    /\ DOMAIN out \subseteq {"SampleCtx"}
    /\ \E pdf \in HandlePDFCtx(transforms, meshes, shape, inp.ctx, inp.wi) :
           out' = Put(out, "PDFCtx", pdf)
    /\ UNCHANGED <<transforms, meshes, shape, inp, threads>>

\* PDF(ctx, wi) for the direction towards the point a Sample(ctx, u) call
\* has returned.
TowardSample(ctx, ss) == Normalize(VSub(ss.intr.p, ctx.p))
CallPDFTowardSample ==
    /\ DOMAIN out = {"SampleCtx"}
    /\ out.SampleCtx.has
    /\ \E pdf \in HandlePDFCtx(transforms, meshes, shape, inp.ctx,
                               TowardSample(inp.ctx, out.SampleCtx)) :
           out' = Put(out, "PDFToward", pdf)
    /\ UNCHANGED <<transforms, meshes, shape, inp, threads>>

\* Triangle::InteractionFromIntersection for the barycentrics of inp.u.
CallInteractionFromIntersection ==
    /\ out = NoResults
    /\ shape.kind = "Triangle"
    /\ out' = Put(out, "Interaction",
                  TriangleInteractionFromIntersection(
                      GetMesh(meshes.triangle, shape), shape.triIndex,
                      SampleUniformTriangle(inp.u), inp.ctx.time, inp.wi))
    /\ UNCHANGED <<transforms, meshes, shape, inp, threads>>

NextSample ==
    \/ CallSample
    \/ CallSampleCtx
    \/ CallPDFCtx
    \/ CallPDFTowardSample
    \/ CallInteractionFromIntersection
SpecSample == InitSample /\ [][NextSample]_vars

(***************************************************************************)
(* Construction.  The constructor of a quadric stores its arguments after  *)
(* ordering and clamping them; Area() and PDF(interaction) read the stored *)
(* values.                                                                 *)
(***************************************************************************)
NoShape == [kind |-> "None"]
Radii == {HalfUnit, Scale, 2 * Scale}
ZArgs == {-2 * Scale, -HalfUnit, 0, HalfUnit, 3 * Scale}
\* phiMax in degrees, as the constructors take it.
PhiArgs == {-90, 0, 90, 360, 720}
SphereArgs ==
    [kind : {"Sphere"}, to : {1, 5}, reverseOrientation : {FALSE}, radius : Radii,
     zMin : ZArgs, zMax : ZArgs, phiMax : PhiArgs]
DiskArgs ==
    [kind : {"Disk"}, to : {1, 3}, reverseOrientation : BOOLEAN, height : {0, HalfUnit},
     radius : Radii, innerRadius : {0, HalfUnit \div 2}, phiMax : PhiArgs]
CylinderArgs ==
    [kind : {"Cylinder"}, to : {1, 5}, reverseOrientation : {TRUE}, radius : Radii,
     zMin : ZArgs, zMax : ZArgs, phiMax : PhiArgs]
\* The interactions PDF(interaction) is asked about.
AreaInteractions ==
    {Interaction(<<0, 0, 0>>, <<0, 0, Scale>>, RayTime),
     Interaction(<<Scale, 0, 0>>, <<Scale, 0, 0>>, ContextTime),
     Interaction(<<5 * Scale, Scale, -Scale>>, <<0, 0, 0>>, 0)}

Constructed(T, a) ==
    CASE a.kind = "Sphere" ->
             MakeSphere(T, a.to, a.to + 1, a.reverseOrientation, a.radius, a.zMin, a.zMax,
                        a.phiMax)
      [] a.kind = "Disk" ->
             MakeDisk(T, a.to, a.to + 1, a.reverseOrientation, a.height, a.radius,
                      a.innerRadius, a.phiMax)
      [] a.kind = "Cylinder" ->
             MakeCylinder(T, a.to, a.to + 1, a.reverseOrientation, a.radius, a.zMin, a.zMax,
                          a.phiMax)

InitConstruct ==
    /\ transforms = TransformTable
    /\ meshes = AllMeshes
    /\ shape = NoShape
    /\ inp \in SphereArgs \cup DiskArgs \cup CylinderArgs
    /\ out = NoResults
    /\ threads = NoThreads

\* Sphere(...), Disk(...) or Cylinder(...) with the arguments inp.
Construct ==
    /\ shape = NoShape
    /\ shape' = Constructed(transforms, inp)
    /\ UNCHANGED <<transforms, meshes, inp, out, threads>>

\* Area() of the constructed shape.
CallArea ==
    /\ shape # NoShape
    /\ ~Called("Area")
    /\ out' = Put(out, "Area", HandleArea(transforms, meshes, shape))
    /\ UNCHANGED <<transforms, meshes, shape, inp, threads>>

\* PDF(interaction) of the constructed shape.
CallPDF ==
    /\ shape # NoShape
    /\ ~Called("PDF")
    /\ \E intr \in AreaInteractions :
           out' = Put(out, "PDF", [intr |-> intr, pdf |-> HandlePDF(transforms, meshes, shape)])
    /\ UNCHANGED <<transforms, meshes, shape, inp, threads>>

NextConstruct == Construct \/ CallArea \/ CallPDF
SpecConstruct == InitConstruct /\ [][NextConstruct]_vars

(***************************************************************************)
(* The check of the two roots.  SphereQuadratic and CylinderQuadratic hand *)
(* BasicIntersect two intervals ordered by their lower bounds only; the    *)
(* check is applied here to pairs of intervals as such.                    *)
(***************************************************************************)
RootBounds == {-Scale, 0, Scale, 2 * Scale, 3 * Scale, 6 * Scale}
RootIntervals == {i \in RootBounds \X RootBounds : i[1] <= i[2]}
RootPairs ==
    {p \in [t0 : RootIntervals, t1 : RootIntervals, tMax : TMaxs] :
        LowerBound(p.t0) <= LowerBound(p.t1)}

InitRoots ==
    /\ transforms = TransformTable
    /\ meshes = AllMeshes
    /\ shape \in {UnitSphere, PartialCylinder}
    /\ inp \in RootPairs
    /\ out = NoResults
    /\ threads = NoThreads

\* The check of Sphere::BasicIntersect on the roots inp.
CheckSphereRoots ==
    /\ out = NoResults /\ shape.kind = "Sphere"
    /\ out' = Put(out, "NearestRoot", SphereNearestRoot(inp.t0, inp.t1, inp.tMax))
    /\ UNCHANGED <<transforms, meshes, shape, inp, threads>>

\* The check of Cylinder::BasicIntersect on the roots inp.
CheckCylinderRoots ==
    /\ out = NoResults /\ shape.kind = "Cylinder"
    /\ out' = Put(out, "NearestRoot", CylinderNearestRoot(inp.t0, inp.t1, inp.tMax))
    /\ UNCHANGED <<transforms, meshes, shape, inp, threads>>

NextRoots == CheckSphereRoots \/ CheckCylinderRoots
SpecRoots == InitRoots /\ [][NextRoots]_vars

(***************************************************************************)
(* Concurrent calls.  Each thread evaluates one method of the shared       *)
(* shape; a step of a thread is the examination of one root, the call of   *)
(* another method or a return.  Every method is const and its locals are   *)
(* its frame, so a thread writes its own stack only.                       *)
(***************************************************************************)
Threads == {1, 2}
\* Deeper stacks than the code builds are cut off here.
MaxStack == 3
HandleMethods ==
    {"Bounds", "Intersect", "IntersectP", "Area", "Sample", "PDF", "SampleCtx", "PDFCtx",
     "NormalBounds"}
MethodsOf(s) == IF s.kind = "BilinearPatch" THEN {"BilinearIntersect"} ELSE HandleMethods
Frame(method, args) == [method |-> method, args |-> args, tried |-> 0, ret |-> None]
Returned(method, args, v) == [has |-> TRUE, method |-> method, args |-> args, value |-> v]
Idle == [stack |-> << >>, result |-> None]
Top(t) == threads[t].stack[Len(threads[t].stack)]
Running(t) == threads[t].stack # << >>
ReplaceTop(stack, frame) == [stack EXCEPT ![Len(stack)] = frame]
Pop(stack) == SubSeq(stack, 1, Len(stack) - 1)
\* The thread after its top frame has returned v.
AfterReturn(th, top, v) ==
    IF Len(th.stack) = 1
    THEN [stack |-> << >>, result |-> Returned(top.method, top.args, v)]
    ELSE [th EXCEPT !.stack =
              ReplaceTop(Pop(th.stack),
                         [th.stack[Len(th.stack) - 1] EXCEPT
                              !.ret = Returned(top.method, top.args, v)])]
\* The values the top frame may return.
ReturnValues(T, M, s, top) ==
    IF top.ret.has THEN Resume(T, M, s, top.method, top.args, top.ret.value)
    ELSE Evaluate(T, M, s, top.method, top.args)

ThreadShapes ==
    {UnitSphere, PartialSphere, UnitDisk, PartialCylinder, MakeTriangle(1, 0),
     MakeTriangle(4, 1), UnitQuad}
DownRay == MakeRay(<<0, 0, 3 * Scale>>, <<0, 0, -Scale>>, RayTime)
AcrossRay == MakeRay(<<-3 * Scale, 0, Scale>>, <<Scale, 0, 0>>, RayTime)
ThreadInputs ==
    { [ray |-> DownRay, tMax |-> PInf, u |-> <<HalfUnit, HalfUnit \div 2>>,
       wi |-> <<0, 0, -Scale>>,
       ctx |-> ShapeSampleContext(<<0, 0, 2 * Scale>>, Zero3, Zero3, Zero3, ContextTime)],
      [ray |-> AcrossRay, tMax |-> PInf, u |-> <<HalfUnit \div 2, HalfUnit>>,
       wi |-> <<0, 0, -Scale>>,
       ctx |-> ShapeSampleContext(<<0, 0, HalfUnit>>, Zero3, <<0, 0, -Scale>>,
                                  <<0, 0, -Scale>>, ContextTime)] }

InitThreads ==
    /\ transforms = TransformTable
    /\ meshes = AllMeshes
    /\ shape \in ThreadShapes
    /\ inp \in ThreadInputs
    /\ out = NoResults
    /\ threads = [t \in Threads |-> Idle]

\* Thread t calls a method of the shape.
Begin(t) ==
    /\ ~Running(t)
    /\ ~threads[t].result.has
    /\ \E method \in MethodsOf(shape) :
           threads' = [threads EXCEPT ![t].stack = <<Frame(method, inp)>>]
    /\ UNCHANGED <<transforms, meshes, shape, inp, out>>
\* The method thread t is in examines the next root of its quadratic.
Examine(t) ==
    /\ Running(t)
    /\ Top(t).tried < RootsTried(transforms, meshes, shape, Top(t).method, Top(t).args)
    /\ threads' = [threads EXCEPT ![t].stack =
                       ReplaceTop(@, [Top(t) EXCEPT !.tried = @ + 1])]
    /\ UNCHANGED <<transforms, meshes, shape, inp, out>>
\* The method thread t is in calls another method of the shape.
Invoke(t) ==
    /\ Running(t)
    /\ Len(threads[t].stack) < MaxStack
    /\ ~Top(t).ret.has
    /\ Callee(transforms, meshes, shape, Top(t).method, Top(t).args).has
    /\ threads' = [threads EXCEPT ![t].stack =
                       Append(@, Frame(Callee(transforms, meshes, shape, Top(t).method,
                                              Top(t).args).method,
                                       Callee(transforms, meshes, shape, Top(t).method,
                                              Top(t).args).args))]
    /\ UNCHANGED <<transforms, meshes, shape, inp, out>>
\* A return that also stores into the shared table of transforms.
ReturnStoring(t) ==
    /\ Running(t)
    /\ Top(t).tried = RootsTried(transforms, meshes, shape, Top(t).method, Top(t).args)
    /\ Top(t).ret.has \/ ~Callee(transforms, meshes, shape, Top(t).method, Top(t).args).has
    /\ \E v \in ReturnValues(transforms, meshes, shape, Top(t)) :
           threads' = [threads EXCEPT ![t] = AfterReturn(@, Top(t), v)]
    /\ transforms' = [transforms EXCEPT ![1] = Translate(<<0, 0, HalfUnit>>)]
    /\ UNCHANGED <<meshes, shape, inp, out>>
\* The method thread t is in returns, to its caller or to the thread.
Return(t) ==
    /\ Running(t)
    /\ Top(t).tried = RootsTried(transforms, meshes, shape, Top(t).method, Top(t).args)
    /\ Top(t).ret.has \/ ~Callee(transforms, meshes, shape, Top(t).method, Top(t).args).has
    /\ \E v \in ReturnValues(transforms, meshes, shape, Top(t)) :
           threads' = [threads EXCEPT ![t] = AfterReturn(@, Top(t), v)]
    /\ UNCHANGED <<transforms, meshes, shape, inp, out>>

NextThreads == \E t \in Threads : Begin(t) \/ Examine(t) \/ Invoke(t) \/ Return(t)
SpecThreads == InitThreads /\ [][NextThreads]_vars

(***************************************************************************)
(* The control flow of the calls.  A frame keeps the method, the number of *)
(* roots examined and whether the call it made has returned; the branches  *)
(* that depend on the geometry are taken either way.                       *)
(***************************************************************************)
FlowFrame(method) == [method |-> method, tried |-> 0, returned |-> FALSE]
FlowIdle == [stack |-> << >>, done |-> FALSE]
\* The methods that Sample(ctx, u) and PDF(ctx, wi) of each shape call.
SphereCalls(method) ==
    CASE method = "SampleCtx" -> {"Sample"}
      [] method = "PDFCtx" -> {"Intersect"}
      [] OTHER -> {}
\* Disk::Sample(ctx, u) calling itself.
DiskCallsItself(method) ==
    CASE method = "SampleCtx" -> {"SampleCtx"}
      [] method = "PDFCtx" -> {"Intersect"}
      [] OTHER -> {}
DiskCalls(method) ==
    CASE method = "SampleCtx" -> {"Sample"}
      [] method = "PDFCtx" -> {"Intersect"}
      [] OTHER -> {}
CylinderCalls(method) ==
    CASE method = "SampleCtx" -> {"Sample"}
      [] method = "PDFCtx" -> {"Intersect"}
      [] OTHER -> {}
TriangleCalls(method) ==
    CASE method = "SampleCtx" -> {"Sample"}
      [] method = "PDFCtx" -> {"Intersect", "IntersectP"}
      [] OTHER -> {}
CallsOf(kind, method) ==
    CASE kind = "Sphere" -> SphereCalls(method)
      [] kind = "Disk" -> DiskCalls(method)
      [] kind = "Cylinder" -> CylinderCalls(method)
      [] kind = "Triangle" -> TriangleCalls(method)
      [] OTHER -> {}
\* The methods with a path that returns without a call: Sphere::Sample(ctx, u)
\* and Sphere::PDF(ctx, wi) for a point outside the sphere, and
\* Triangle::Sample(ctx, u) when it samples the spherical triangle.
ReturnsWithoutCall(kind, method) ==
    \/ CallsOf(kind, method) = {}
    \/ kind = "Sphere"
    \/ kind = "Triangle" /\ method = "SampleCtx"
\* The roots of the quadratic of a method: t0 and t1 of the sphere and of
\* the cylinder, u1 and u2 of the bilinear patch.
QuadraticRoots(kind, method) ==
    IF method = "BilinearIntersect" THEN 2
    ELSE IF kind \in {"Sphere", "Cylinder"} /\ method \in {"Intersect", "IntersectP"} THEN 2
    ELSE 0
FlowTop(th) == th.stack[Len(th.stack)]
FlowReturned(th) ==
    IF Len(th.stack) = 1 THEN [stack |-> << >>, done |-> TRUE]
    ELSE [th EXCEPT !.stack =
              ReplaceTop(Pop(th.stack),
                         [th.stack[Len(th.stack) - 1] EXCEPT !.returned = TRUE])]
FlowBegun(s, th) ==
    IF th.stack # << >> \/ th.done THEN {}
    ELSE {[th EXCEPT !.stack = <<FlowFrame(method)>>] : method \in MethodsOf(s)}
FlowExamined(s, th) ==
    IF th.stack = << >> THEN {}
    ELSE IF FlowTop(th).tried >= QuadraticRoots(s.kind, FlowTop(th).method) THEN {}
    ELSE {[th EXCEPT !.stack = ReplaceTop(@, [FlowTop(th) EXCEPT !.tried = @ + 1])]}
FlowInvoked(s, th) ==
    IF th.stack = << >> THEN {}
    ELSE IF FlowTop(th).returned \/ Len(th.stack) >= MaxStack THEN {}
    ELSE {[th EXCEPT !.stack = Append(@, FlowFrame(method))] :
              method \in CallsOf(s.kind, FlowTop(th).method)}
FlowReturns(s, th) ==
    IF th.stack = << >> THEN {}
    ELSE IF FlowTop(th).returned \/ ReturnsWithoutCall(s.kind, FlowTop(th).method)
    THEN {FlowReturned(th)}
    ELSE {}

InitFlow ==
    /\ transforms = TransformTable
    /\ meshes = AllMeshes
    /\ shape \in ThreadShapes
    /\ inp \in ThreadInputs
    /\ out = NoResults
    /\ threads = [t \in Threads |-> FlowIdle]
FlowBegin(t) ==
    /\ \E th \in FlowBegun(shape, threads[t]) : threads' = [threads EXCEPT ![t] = th]
    /\ UNCHANGED <<transforms, meshes, shape, inp, out>>
FlowExamine(t) ==
    /\ \E th \in FlowExamined(shape, threads[t]) : threads' = [threads EXCEPT ![t] = th]
    /\ UNCHANGED <<transforms, meshes, shape, inp, out>>
FlowInvoke(t) ==
    /\ \E th \in FlowInvoked(shape, threads[t]) : threads' = [threads EXCEPT ![t] = th]
    /\ UNCHANGED <<transforms, meshes, shape, inp, out>>
FlowReturn(t) ==
    /\ \E th \in FlowReturns(shape, threads[t]) : threads' = [threads EXCEPT ![t] = th]
    /\ UNCHANGED <<transforms, meshes, shape, inp, out>>
FlowStep(t) == FlowBegin(t) \/ FlowExamine(t) \/ FlowInvoke(t) \/ FlowReturn(t)
NextFlow == \E t \in Threads : FlowStep(t)
\* A thread that can take a step eventually takes one: a call, once
\* entered, keeps running whatever the other threads do.
SpecFlowFair ==
    InitFlow /\ [][NextFlow]_vars /\ \A t \in Threads : WF_vars(FlowStep(t))

\* The control flow of a thread of the concurrent calls.
FlowOfFrame(f) == [method |-> f.method, tried |-> f.tried, returned |-> f.ret.has]
FlowOf(th) ==
    [stack |-> [i \in DOMAIN th.stack |-> FlowOfFrame(th.stack[i])], done |-> th.result.has]
FlowSteps(s, th) ==
    FlowBegun(s, th) \cup FlowExamined(s, th) \cup FlowInvoked(s, th) \cup FlowReturns(s, th)
\* Every step of the concurrent calls follows the control flow.
FollowsFlow ==
    [][\A t \in Threads :
           \/ threads'[t] = threads[t]
           \/ FlowOf(threads'[t]) \in FlowSteps(shape, FlowOf(threads[t]))]_vars

(***************************************************************************)
(* Properties of the intersection calls                                    *)
(***************************************************************************)

\* The hit si carries the parameter of the quadric intersection isect.
SameHit(si, isect) == isect.has /\ si.tHit = isect.tHit
\* C1: for a Sphere, Disk or Cylinder, IntersectP(R, tMax) is true exactly
\* when Intersect(R, tMax) returns a hit, and the tHit of that hit is the
\* tHit of the BasicIntersect(R, tMax) result that IntersectP tests.
C1_IntersectPAgreesWithIntersect ==
    (Called("Intersect") /\ Called("IntersectP")) =>
        /\ out.IntersectP = out.Intersect.has
        /\ out.Intersect.has =>
               SameHit(out.Intersect, BasicIntersect(transforms, shape, inp.ray, inp.tMax))
C1_Witness ==
    /\ Called("Intersect") /\ Called("IntersectP")
    /\ shape.kind = "Cylinder" /\ inp.tMax = 2 * Scale
    /\ out.Intersect.has /\ out.IntersectP

IsDiskScenario == shape = UnitDisk /\ inp.ray = DiskRay /\ Called("Intersect")

\* C9: the unit disk (height 0, radius 1, inner radius 0, phiMax 360,
\* identity transform) and the ray from (0.3, 0.4, 1) along (0, 0, -1) give a
\* hit with tHit = 1 at the point (0.3, 0.4, 0) with v = 0.5.
C9_DiskScenario ==
    IsDiskScenario =>
        /\ out.Intersect.has
        /\ out.Intersect.tHit = Scale
        /\ out.Intersect.intr.p = <<300000, 400000, 0>>
        /\ out.Intersect.intr.uv[2] = HalfUnit
C9_Witness == IsDiskScenario /\ inp.tMax = PInf /\ out.Intersect.has

\* The tolerance of a value quoted to four decimals.
FourDecimals == Scale \div 20000
Near(x, y, tol) == IsFin(x) /\ Abs(x - y) <= tol

\* C10 as stated: in the disk scenario u is about 0.1762.
C10_Original ==
    IsDiskScenario => (out.Intersect.has /\ Near(out.Intersect.intr.uv[1], 176200, FourDecimals))
\* C10: in the disk scenario u = phi / (2 pi) with phi = atan2(0.4, 0.3),
\* which is about 0.1476.
C10_DiskScenarioU ==
    IsDiskScenario =>
        /\ out.Intersect.has
        /\ out.Intersect.intr.uv[1] = FDiv(Atan2(400000, 300000), TwoPi)
        /\ Near(out.Intersect.intr.uv[1], 147600, FourDecimals)
C10_Witness == IsDiskScenario /\ inp.tMax = 5 * Scale /\ out.Intersect.has

IsQuadScenario ==
    shape = UnitQuad /\ inp.ray = QuadRay /\ inp.tMax = PInf /\ Called("BilinearIntersect")

\* C8: for the unit quad p00 = (0,0,0), p10 = (1,0,0), p01 = (0,1,0),
\* p11 = (1,1,0), the ray from (0.7, 0.6, 1) along (0, 0, -1) and
\* tMax = infinity, the static BilinearPatch::Intersect returns uv = (0.7, 0.6)
\* and t = 1.
C8_QuadScenario ==
    IsQuadScenario =>
        /\ out.BilinearIntersect.has
        /\ out.BilinearIntersect.uv = <<700000, 600000>>
        /\ out.BilinearIntersect.t = Scale
C8_Witness == IsQuadScenario /\ out.BilinearIntersect.has

(***************************************************************************)
(* Properties of the sampling calls                                        *)
(***************************************************************************)
\* The vertices of the triangle under evaluation, and its degeneracies.
ShapeVertices == TriangleVertices(GetMesh(meshes.triangle, shape), shape.triIndex)
ShapeUVs == TriangleUVs(GetMesh(meshes.triangle, shape), shape.triIndex)
EdgeCross(p) == Cross(VSub(p[3], p[1]), VSub(p[2], p[1]))
ZeroArea(p) == FEq(LengthSquared(EdgeCross(p)), 0)
UVDeterminant(triuv) ==
    DifferenceOfProducts(FSub(triuv[1][1], triuv[3][1]), FSub(triuv[2][2], triuv[3][2]),
                         FSub(triuv[1][2], triuv[3][2]), FSub(triuv[2][1], triuv[3][1]))
DegenerateUV(triuv) == FLt(FAbs(UVDeterminant(triuv)), UVDeterminantBound)
\* a, b are unit vectors perpendicular to each other and to n.
Orthonormal(a, b, n) ==
    /\ Near(Dot(a, b), 0, FourDecimals)
    /\ Near(Dot(a, n), 0, FourDecimals)
    /\ Near(Dot(b, n), 0, FourDecimals)
    /\ Near(LengthSquared(a), Scale, FourDecimals)
    /\ Near(LengthSquared(b), Scale, FourDecimals)

\* C3 as stated: Triangle::InteractionFromIntersection returns a surface
\* interaction for every triangle, a zero-area triangle included.
C3_Original == Called("Interaction") => out.Interaction.has
\* C3: Triangle::InteractionFromIntersection returns the empty result only
\* for a triangle whose geometric normal (p2 - p0) x (p1 - p0) has zero
\* length, and it does return it when the UV determinant of such a triangle
\* is degenerate; for every triangle whose geometric normal has a non-zero
\* length it returns a surface interaction, and when the UV determinant of
\* that triangle is degenerate dpdu and dpdv are an orthonormal frame around
\* the geometric normal.
C3_DegenerateTriangle ==
    Called("Interaction") =>
        /\ ~out.Interaction.has => ZeroArea(ShapeVertices)
        /\ (ZeroArea(ShapeVertices) /\ DegenerateUV(ShapeUVs)) => ~out.Interaction.has
        /\ ~ZeroArea(ShapeVertices) =>
               /\ out.Interaction.has
               /\ DegenerateUV(ShapeUVs) =>
                      Orthonormal(out.Interaction.intr.dpdu, out.Interaction.intr.dpdv,
                                  Normalize(EdgeCross(ShapeVertices)))
C3_Witness ==
    /\ Called("Interaction")
    /\ ~ZeroArea(ShapeVertices) /\ DegenerateUV(ShapeUVs)
    /\ out.Interaction.has
    /\ out.Interaction.intr.dpdu = <<Scale, 0, 0>>

\* The centre of a sphere in rendering space.
Centre(T, s) == ApplyP(T[s.renderFromObject], Zero3)
\* Sample(ctx, u) and PDF(ctx, wi) of shape s convert an area-measure
\* density for the reference point of ctx.
ConvertsFromArea(T, M, s, ctx) ==
    CASE s.kind \in {"Disk", "Cylinder"} -> TRUE
      [] s.kind = "Sphere" ->
             SphereInside(s, OffsetRayOriginTo(ctx, Centre(T, s)), Centre(T, s))
      [] s.kind = "Triangle" -> UsesAreaSampling(TriangleSolidAngle(M.triangle, s, ctx.p))
\* The area sample ss is at a non-zero distance of the reference point and
\* its density becomes infinite in solid angle.
InfiniteFromSample(ss, ctx) ==
    /\ FNe(LengthSquared(VSub(ss.intr.p, ctx.p)), 0)
    /\ IsInf(FMul(ss.pdf,
                  FDiv(DistanceSquared(ctx.p, ss.intr.p),
                       AbsDot(ss.intr.n, VNeg(Normalize(VSub(ss.intr.p, ctx.p)))))))
\* The hit si of the ray from pRef along wi has an infinite density in solid
\* angle.
InfiniteFromHit(pRef, si, wi, area) ==
    /\ si.has
    /\ IsInf(FDiv(DistanceSquared(pRef, si.intr.p), FMul(AbsDot(si.intr.n, VNeg(wi)), area)))
\* The ray PDF(ctx, wi) traces and the point it measures the distance from.
PDFOrigin(T, s, ctx) ==
    IF s.kind = "Sphere" THEN OffsetRayOriginTo(ctx, Centre(T, s)) ELSE ctx.p
PDFRay(T, s, ctx, wi) ==
    IF s.kind = "Sphere" THEN MakeRay(OffsetRayOriginTo(ctx, Centre(T, s)), wi, 0)
    ELSE SpawnRay(ctx, wi)

\* C4: where Sample(ctx, u) and PDF(ctx, wi) of a Disk, a Cylinder, a Sphere
\* with the reference point inside and a Triangle in the area fallback
\* convert from area to solid angle, an infinite converted density makes
\* Sample(ctx, u) return the empty optional and PDF(ctx, wi) return 0, and
\* neither returns an infinite value.
C4_InfinitePdfIsNoSample ==
    /\ (Called("SampleCtx") /\ ConvertsFromArea(transforms, meshes, shape, inp.ctx)) =>
           /\ out.SampleCtx.has => ~IsInf(out.SampleCtx.pdf)
           /\ InfiniteFromSample(HandleSample(transforms, meshes, shape, inp.u), inp.ctx)
                  => ~out.SampleCtx.has
    /\ (Called("PDFCtx") /\ ConvertsFromArea(transforms, meshes, shape, inp.ctx)) =>
           /\ ~IsInf(out.PDFCtx)
           /\ InfiniteFromHit(PDFOrigin(transforms, shape, inp.ctx),
                              HandleIntersect(transforms, meshes, shape,
                                              PDFRay(transforms, shape, inp.ctx, inp.wi),
                                              PInf),
                              inp.wi, HandleArea(transforms, meshes, shape))
                  => out.PDFCtx = 0
C4_Witness ==
    /\ Called("SampleCtx") /\ Called("PDFCtx")
    /\ shape = UnitDisk
    /\ InfiniteFromSample(HandleSample(transforms, meshes, shape, inp.u), inp.ctx)
    /\ InfiniteFromHit(inp.ctx.p,
                       HandleIntersect(transforms, meshes, shape, SpawnRay(inp.ctx, inp.wi),
                                       PInf),
                       inp.wi, HandleArea(transforms, meshes, shape))
    /\ ~out.SampleCtx.has /\ out.PDFCtx = 0

\* The sign of n . ((p2 - p0) x (p1 - p0)) is positive.
FacesEdgeCross(n, p) == FGt(Dot(n, EdgeCross(p)), 0)
ShapeMesh == GetMesh(meshes.triangle, shape)
\* C5 as stated: for every mesh and every triangle sample the sign of
\* n . ((p2 - p0) x (p1 - p0)) is fixed by reverseOrientation XOR
\* transformSwapsHandedness.
C5_Original ==
    /\ (Called("Sample") /\ shape.kind = "Triangle") =>
           (FacesEdgeCross(out.Sample.intr.n, ShapeVertices) <=> MeshFlipsNormal(ShapeMesh))
    /\ (Called("SampleCtx") /\ shape.kind = "Triangle" /\ out.SampleCtx.has) =>
           (FacesEdgeCross(out.SampleCtx.intr.n, ShapeVertices) <=> MeshFlipsNormal(ShapeMesh))
\* The normal n of a sample of the triangle under evaluation: with vertex
\* normals (all of them vn here) it does not oppose them, without it has the
\* sign of the mesh orientation.
OrientedSample(n) ==
    IF ShapeMesh.n # << >>
    THEN FGe(Dot(n, TriangleNormals(ShapeMesh, shape.triIndex)[1]), 0)
    ELSE /\ FacesEdgeCross(n, ShapeVertices) <=> MeshFlipsNormal(ShapeMesh)
         /\ FLt(Dot(n, EdgeCross(ShapeVertices)), 0) <=> ~MeshFlipsNormal(ShapeMesh)
\* C5: for every sample returned by Triangle::Sample(u) or
\* Triangle::Sample(ctx, u) of a triangle of non-zero area, in a mesh without
\* per-vertex normals n . ((p2 - p0) x (p1 - p0)) is negative when
\* reverseOrientation XOR transformSwapsHandedness is false and positive when
\* it is true; in a mesh with per-vertex normals n is faced towards the
\* interpolated vertex normal and the two flags are not consulted.
C5_SampleOrientation ==
    /\ (Called("Sample") /\ shape.kind = "Triangle" /\ ~ZeroArea(ShapeVertices)) =>
           OrientedSample(out.Sample.intr.n)
    /\ (Called("SampleCtx") /\ shape.kind = "Triangle" /\ ~ZeroArea(ShapeVertices)
            /\ out.SampleCtx.has) =>
           OrientedSample(out.SampleCtx.intr.n)
C5_Witness ==
    /\ Called("SampleCtx") /\ out.SampleCtx.has
    /\ shape = MakeTriangle(2, 0)
    /\ ~UsesAreaSampling(TriangleSolidAngle(meshes.triangle, shape, inp.ctx.p))
    /\ FacesEdgeCross(out.SampleCtx.intr.n, ShapeVertices)

\* The reference point of ctx is outside the sphere s by the test of
\* Sphere::Sample(ctx, u) and Sphere::PDF(ctx, wi).
SphereOutside(T, s, ctx) ==
    /\ s.kind = "Sphere"
    /\ ~SphereInside(s, OffsetRayOriginTo(ctx, Centre(T, s)), Centre(T, s))
\* x is within 0.1% of y.
WithinTenthPercent(x, y) == IsFin(x) /\ IsFin(y) /\ Abs(x - y) <= Abs(y) \div 1000
\* sin^2(thetaMax) as Sample(ctx, u) and as PDF(ctx, wi) compute it.
SampleSin2(T, s, ctx) == Sqr(FMul(s.radius, FDiv(Scale, Distance(ctx.p, Centre(T, s)))))
PDFSin2(T, s, ctx) ==
    FDiv(FMul(s.radius, s.radius), DistanceSquared(ctx.p, Centre(T, s)))
\* 1 / (2 pi (1 - cos(thetaMax))), with sin^2(thetaMax) / 2 for
\* 1 - cos(thetaMax) under the threshold.
ConeDensity(sin2) ==
    FDiv(Scale,
         FMul(FMul(2 * Scale, Pi),
              IF FLt(sin2, Sin2SmallAngle) THEN FDiv(sin2, 2 * Scale)
              ELSE FSub(Scale, SafeSqrt(FSub(Scale, sin2)))))

\* C6 as stated: with the reference point outside the sphere, PDF(ctx, wi)
\* towards the point Sample(ctx, u) returned equals the pdf of that sample.
C6_Original ==
    (Called("PDFToward") /\ SphereOutside(transforms, shape, inp.ctx)) =>
        out.PDFToward = out.SampleCtx.pdf
\* C6: with the reference point outside the sphere, PDF(ctx, wi) towards the
\* point Sample(ctx, u) returned is within 0.1% of the pdf of that sample;
\* both are 1 / (2 pi (1 - cos(thetaMax))) with sin^2(thetaMax) / 2 for
\* 1 - cos(thetaMax) under the threshold 0.00068523, of a sin^2(thetaMax)
\* that Sample computes as (radius * (1 / distance))^2 and PDF as
\* radius^2 / distance^2.
C6_SpherePdfConsistent ==
    (Called("PDFToward") /\ SphereOutside(transforms, shape, inp.ctx)) =>
        /\ out.SampleCtx.pdf = ConeDensity(SampleSin2(transforms, shape, inp.ctx))
        /\ out.PDFToward = ConeDensity(PDFSin2(transforms, shape, inp.ctx))
        /\ WithinTenthPercent(out.PDFToward, out.SampleCtx.pdf)
C6_Witness ==
    /\ Called("PDFToward") /\ SphereOutside(transforms, shape, inp.ctx)
    /\ shape = UnitSphere
    /\ out.PDFToward # out.SampleCtx.pdf
    /\ WithinTenthPercent(out.PDFToward, out.SampleCtx.pdf)

\* The triangle (0,0,0), (1,0,0), (0,1,0) of the mesh without per-vertex
\* normals, parametric coordinates, reversed orientation or handedness swap,
\* with the barycentric coordinates (0.5, 0.2, 0.3).
IsTriangleScenario ==
    /\ shape = MakeTriangle(1, 0)
    /\ ShapeVertices = << <<0, 0, 0>>, <<Scale, 0, 0>>, <<0, Scale, 0>> >>
    /\ SampleUniformTriangle(inp.u) = <<Lit(5, 10), Lit(2, 10), Lit(3, 10)>>
\* C11: in the triangle scenario Triangle::InteractionFromIntersection
\* returns an interaction at (0.2, 0.3, 0) with the geometric normal (0, 0, 1).
C11_TriangleScenario ==
    (Called("Interaction") /\ IsTriangleScenario) =>
        /\ out.Interaction.has
        /\ out.Interaction.intr.p = <<Lit(2, 10), Lit(3, 10), 0>>
        /\ out.Interaction.intr.n = <<0, 0, Scale>>
C11_Witness ==
    /\ Called("Interaction") /\ IsTriangleScenario
    /\ out.Interaction.has
    /\ out.Interaction.intr.p = <<Lit(2, 10), Lit(3, 10), 0>>

\* The unit sphere at the origin sampled from the reference point
\* (0, 0, -5) with zero error and u = (0.5, 0.25).
IsSphereConeScenario ==
    /\ shape = UnitSphere
    /\ inp.ctx = ShapeSampleContext(<<0, 0, -5 * Scale>>, Zero3, Zero3, Zero3, ContextTime)
    /\ inp.u = <<HalfUnit, HalfUnit \div 2>>
ScenarioSinThetaMax ==
    SphereSinThetaMax(shape, inp.ctx, ApplyP(transforms[shape.renderFromObject], Zero3))
\* 1 / (2 Pi (1 - sqrt(0.96))).
ScenarioConePdf == FDiv(Scale, FMul(TwoPi, FSub(Scale, FSqrt(Lit(96, 100)))))
\* C12 as stated: the pdf of the sample is about 12.47.
C12_Original ==
    (Called("SampleCtx") /\ IsSphereConeScenario) =>
        /\ out.SampleCtx.has
        /\ ScenarioSinThetaMax = Lit(2, 10)
        /\ Near(out.SampleCtx.pdf, Lit(1247, 100), Lit(1, 100))
\* C12: in the sphere scenario Sphere::Sample(ctx, u) uses sinThetaMax = 0.2
\* and returns the pdf 1 / (2 Pi (1 - sqrt(0.96))), which is about 7.88.
C12_SphereConeScenario ==
    (Called("SampleCtx") /\ IsSphereConeScenario) =>
        /\ out.SampleCtx.has
        /\ ScenarioSinThetaMax = Lit(2, 10)
        /\ Near(out.SampleCtx.pdf, ScenarioConePdf, Lit(1, 1000))
        /\ Near(out.SampleCtx.pdf, Lit(788, 100), Lit(1, 100))
C12_Witness ==
    /\ Called("SampleCtx") /\ IsSphereConeScenario
    /\ out.SampleCtx.has
    /\ ~FLt(FMul(ScenarioSinThetaMax, ScenarioSinThetaMax), Sin2SmallAngle)

(***************************************************************************)
(* Properties of construction                                              *)
(***************************************************************************)
\* The area by the stored values of the shape under evaluation.
StoredArea ==
    CASE shape.kind = "Sphere" ->
             FMul(FMul(shape.phiMax, shape.radius), FSub(shape.zMax, shape.zMin))
      [] shape.kind = "Disk" ->
             FMul(FMul(shape.phiMax, HalfScale),
                  FSub(FMul(shape.radius, shape.radius),
                       FMul(shape.innerRadius, shape.innerRadius)))
      [] shape.kind = "Cylinder" ->
             FMul(FMul(FSub(shape.zMax, shape.zMin), shape.radius), shape.phiMax)
\* C13: Area() is phiMax r (zMax - zMin) for the sphere,
\* phiMax (radius^2 - innerRadius^2) / 2 for the disk and
\* (zMax - zMin) r phiMax for the cylinder, of the stored values, and
\* PDF(interaction) is 1 / Area() whatever the interaction.
C13_AreaFormulas ==
    /\ Called("Area") => out.Area = StoredArea
    /\ Called("PDF") => out.PDF.pdf = FDiv(Scale, StoredArea)
    /\ (Called("Area") /\ Called("PDF")) => out.PDF.pdf = FDiv(Scale, out.Area)
C13_Witness ==
    /\ Called("Area") /\ Called("PDF")
    /\ shape.kind = "Sphere"
    /\ shape.phiMax = Radians(90) /\ shape.zMin = -HalfUnit /\ shape.zMax = Scale
    /\ inp.zMin = 3 * Scale
    /\ out.PDF.intr.p = <<5 * Scale, Scale, -Scale>>
    /\ FGt(out.Area, 0) /\ IsFin(out.PDF.pdf)

\* A sphere of positive radius has just been constructed from inp.
SphereConstructed == shape # NoShape /\ inp.kind = "Sphere" /\ FGt(inp.radius, 0)
\* The z range stored by the constructor is ordered and within the radius,
\* and does not depend on the order of the two z arguments.
StoredZRange ==
    /\ FLe(-shape.radius, shape.zMin)
    /\ FLe(shape.zMin, shape.zMax)
    /\ FLe(shape.zMax, shape.radius)
    /\ shape = Constructed(transforms, [inp EXCEPT !.zMin = inp.zMax, !.zMax = inp.zMin])
\* C14 as stated: the stored phiMax is in (0, 2 Pi].
C14_Original ==
    SphereConstructed =>
        /\ StoredZRange
        /\ FLt(0, shape.phiMax) /\ FLe(shape.phiMax, TwoPi)
\* C14: after the construction of a sphere of positive radius,
\* -r <= zMin <= zMax <= r whatever the order of the two z arguments, and
\* the stored phiMax is in [0, 2 Pi]; it is 0 when the argument is not
\* positive.
C14_SphereConstruction ==
    SphereConstructed =>
        /\ StoredZRange
        /\ FLe(0, shape.phiMax) /\ FLe(shape.phiMax, TwoPi)
        /\ inp.phiMax <= 0 => shape.phiMax = 0
        /\ inp.phiMax > 0 => FGt(shape.phiMax, 0)
C14_Witness ==
    /\ SphereConstructed
    /\ inp.zMin = 3 * Scale /\ inp.zMax = -2 * Scale /\ inp.radius = Scale
    /\ shape.zMin = -Scale /\ shape.zMax = Scale
    /\ inp.phiMax = 720 /\ shape.phiMax = TwoPi

(***************************************************************************)
(* Properties of the check of the two roots                                *)
(***************************************************************************)
\* The test of a root interval: lower bound > 0 and upper bound <= tMax.
PassesRootTest(t, tMax) == FGt(LowerBound(t), 0) /\ FLe(UpperBound(t), tMax)
Took(t) == out.NearestRoot.has /\ out.NearestRoot.t = t
\* C15 as stated: t0 if it passes the test, otherwise t1 if it passes the
\* test, no root only when neither passes.
C15_Original ==
    Called("NearestRoot") =>
        /\ PassesRootTest(inp.t0, inp.tMax) => Took(inp.t0)
        /\ (~PassesRootTest(inp.t0, inp.tMax) /\ PassesRootTest(inp.t1, inp.tMax))
               => Took(inp.t1)
        /\ ~out.NearestRoot.has
               => (~PassesRootTest(inp.t0, inp.tMax) /\ ~PassesRootTest(inp.t1, inp.tMax))
\* C15: for roots ordered by their lower bounds, BasicIntersect takes t0 if
\* its lower bound is > 0 and its upper bound <= tMax; otherwise it takes t1
\* if the upper bound of t0 is <= tMax and t1 passes the same test; in every
\* other case there is no hit, also when t1 passes the test but the upper
\* bound of t0 exceeds tMax.
C15_NearestRoot ==
    Called("NearestRoot") =>
        /\ PassesRootTest(inp.t0, inp.tMax) => Took(inp.t0)
        /\ (~PassesRootTest(inp.t0, inp.tMax) /\ FLe(UpperBound(inp.t0), inp.tMax)
              /\ PassesRootTest(inp.t1, inp.tMax))
               => Took(inp.t1)
        /\ (~PassesRootTest(inp.t0, inp.tMax)
              /\ (FGt(UpperBound(inp.t0), inp.tMax) \/ ~PassesRootTest(inp.t1, inp.tMax)))
               => ~out.NearestRoot.has
C15_Witness ==
    /\ Called("NearestRoot")
    /\ FGt(LowerBound(inp.t0), 0)
    /\ FLt(UpperBound(inp.t1), UpperBound(inp.t0))
    /\ FGt(UpperBound(inp.t0), inp.tMax)
    /\ PassesRootTest(inp.t1, inp.tMax)
    /\ ~out.NearestRoot.has

(***************************************************************************)
(* Properties of the quadratics, for the ray of the intersection calls     *)
(***************************************************************************)
HasQuadratic == shape.kind \in {"Sphere", "Cylinder"}
\* The ray in object space, as BasicIntersect hands it to the quadratic.
ObjectO == ApplyPi(transforms[shape.objectFromRender], inp.ray.o)
ObjectD == ApplyVi(transforms[shape.objectFromRender], inp.ray.d)
ShapeQuadratic ==
    IF shape.kind = "Sphere" THEN SphereQuadratic(shape, ObjectO, ObjectD)
    ELSE CylinderQuadratic(shape, ObjectO, ObjectD)
ShapeDiscriminant ==
    IF shape.kind = "Sphere" THEN SphereDiscriminant(shape, ObjectO, ObjectD)
    ELSE CylinderDiscriminant(shape, ObjectO, ObjectD)
\* C16 as stated: no roots exactly when the upper bound of the discriminant
\* is negative.
C16_Original ==
    (Called("Intersect") /\ HasQuadratic) =>
        (ShapeQuadratic.ok <=> ~FLt(UpperBound(ShapeDiscriminant), 0))
\* C16: SphereQuadratic and CylinderQuadratic return no roots exactly when
\* the lower bound of the discriminant interval is negative, also when the
\* interval straddles zero, and then BasicIntersect reports no hit.
C16_DiscriminantLowerBound ==
    (Called("Intersect") /\ HasQuadratic) =>
        /\ ShapeQuadratic.ok <=> ~FLt(LowerBound(ShapeDiscriminant), 0)
        /\ ~ShapeQuadratic.ok => ~out.Intersect.has
C16_Witness ==
    /\ Called("Intersect") /\ shape.kind = "Sphere"
    /\ FLt(LowerBound(ShapeDiscriminant), 0)
    /\ FGe(UpperBound(ShapeDiscriminant), 0)
    /\ ~ShapeQuadratic.ok /\ ~out.Intersect.has

ShapeCoefA ==
    IF shape.kind = "Sphere" THEN SphereCoefA(ObjectD) ELSE CylinderCoefA(ObjectD)
ShapeCoefB ==
    IF shape.kind = "Sphere" THEN SphereCoefB(ObjectO, ObjectD)
    ELSE CylinderCoefB(ObjectO, ObjectD)
ShapeCoefC ==
    IF shape.kind = "Sphere" THEN SphereCoefC(shape, ObjectO)
    ELSE CylinderCoefC(shape, ObjectO)
\* q as stated: -(b - sqrt(disc)) / 2 when the midpoint of b is negative,
\* -(b + sqrt(disc)) / 2 otherwise.
StatedQOf(b, rootDiscrim) ==
    After(<<b, rootDiscrim>>,
          IF FLt(Midpoint(b), 0)
          THEN IScale(-HalfScale, ISub(b, rootDiscrim))
          ELSE IScale(-HalfScale, IAdd(b, rootDiscrim)))
StatedRootDiscrim(discrim) == After(<<discrim>>, ISqrt(discrim))
StatedQ == StatedQOf(ShapeCoefB, StatedRootDiscrim(ShapeDiscriminant))
\* The roots q / a and c / q.
RootQA(a, q) == After(<<a, q>>, IDiv(q, a))
RootCQ(c, q) == After(<<c, q>>, IDiv(c, q))
StatedRootQA == RootQA(ShapeCoefA, StatedQ)
StatedRootCQ == RootCQ(ShapeCoefC, StatedQ)
\* The ray has a component across the axis of the quadric: the interval of
\* the leading coefficient a lies above zero.
ProperQuadratic == FGt(LowerBound(ShapeCoefA), 0)
FirstRootOf(qd) ==
    After(<<qd>>,
          IF ~qd.ok THEN None
          ELSE IF shape.kind = "Sphere" THEN SphereNearestRoot(qd.t0, qd.t1, inp.tMax)
          ELSE CylinderNearestRoot(qd.t0, qd.t1, inp.tMax))
FirstRoot == FirstRootOf(ShapeQuadratic)
HitAtOf(o, d, t) ==
    After(<<o, d, t>>,
          IF shape.kind = "Sphere" THEN SphereHitPoint(shape, o, d, t)
          ELSE CylinderHitPoint(shape, o, d, t))
HitAt(t) == HitAtOf(MidP(ObjectO), MidP(ObjectD), t)
\* The clip tests as stated: phi <= phiMax, and z within [zMin, zMax]; for
\* the sphere a bound on z counts only where it cuts the sphere.
PassesClipOf(pHit, phi) ==
    After(<<pHit, phi>>,
          /\ FLe(phi, shape.phiMax)
          /\ IF shape.kind = "Sphere"
             THEN /\ FGt(shape.zMin, -shape.radius) => FGe(pHit[3], shape.zMin)
                  /\ FLt(shape.zMax, shape.radius) => FLe(pHit[3], shape.zMax)
             ELSE FGe(pHit[3], shape.zMin) /\ FLe(pHit[3], shape.zMax))
PassesClip(h) == PassesClipOf(h.pHit, h.phi)
ReturnedPassesClipOf(isect) == After(<<isect>>, PassesClipOf(isect.pObj, isect.phi))
ReturnedPassesClip ==
    ReturnedPassesClipOf(BasicIntersect(transforms, shape, inp.ray, inp.tMax))
FirstIsClippedOf(first) == After(<<first>>, first.has /\ ~PassesClip(HitAt(first.t)))
FirstIsClipped == FirstIsClippedOf(FirstRoot)
SecondAcceptedOf(first, t1) ==
    After(<<first, t1>>,
          /\ ~IEq(first.t, t1)
          /\ FLe(UpperBound(t1), inp.tMax)
          /\ PassesClip(HitAt(t1)))
SecondAccepted == SecondAcceptedOf(FirstRoot, ShapeQuadratic.t1)
OffAxisOf(isect) ==
    After(<<isect>>,
          /\ ~(FEq(isect.pObj[1], 0) /\ FEq(isect.pObj[2], 0))
          /\ FLe(0, isect.phi) /\ FLe(isect.phi, TwoPi)
          /\ FNe(SphereZRadius(isect.pObj), 0))
\* C19: every hit Sphere::BasicIntersect returns for a sphere of positive
\* radius has (x, y) # (0, 0), a phi in [0, 2 Pi] and a non-zero xy-radius
\* sqrt(x^2 + y^2), the divisor of Sphere::InteractionFromIntersection.
C19_Original ==
    (Called("Intersect") /\ shape.kind = "Sphere" /\ FGt(shape.radius, 0)
        /\ out.Intersect.has) =>
        OffAxisOf(BasicIntersect(transforms, shape, inp.ray, inp.tMax))

(***************************************************************************)
(* Properties of the disk intersection                                     *)
(***************************************************************************)
\* The conditions of a disk hit as stated, for the object-space ray (o, d),
\* the plane parameter t and the point pHit of the ray at t.
StatedDiskPoint(pHit, dist2, phi) ==
    After(<<pHit, dist2, phi>>,
          /\ FLe(FMul(shape.innerRadius, shape.innerRadius), dist2)
          /\ FLe(dist2, FMul(shape.radius, shape.radius))
          /\ FLe(0, phi) /\ FLe(phi, shape.phiMax))
StatedDiskAt(pHit) ==
    After(<<pHit>>,
          StatedDiskPoint(pHit, FAdd(FMul(pHit[1], pHit[1]), FMul(pHit[2], pHit[2])),
                          WrapPhi(Atan2(pHit[2], pHit[1]))))
StatedDiskT(o, d) == FDiv(FSub(shape.height, o[3]), d[3])
StatedDiskPlane(o, d, t) ==
    After(<<o, d, t>>,
          /\ FLt(0, t) /\ FLt(t, inp.tMax)
          /\ StatedDiskAt(RayAt(o, d, t)))
StatedDiskHitOf(o, d) ==
    After(<<o, d>>, FNe(d[3], 0) /\ StatedDiskPlane(o, d, StatedDiskT(o, d)))
StatedDiskHit == StatedDiskHitOf(MidP(ObjectO), MidP(ObjectD))
\* C20: Disk::BasicIntersect returns a hit exactly when d.z # 0, the plane
\* parameter t = (height - o.z) / d.z is in (0, tMax), the point at t is
\* between the two radii and its angle phi >= 0 is at most phiMax; the
\* returned tHit is that t.
C20_DiskHit ==
    (Called("Intersect") /\ shape.kind = "Disk") =>
        /\ out.Intersect.has <=> StatedDiskHit
        /\ out.Intersect.has => out.Intersect.tHit = StatedDiskT(MidP(ObjectO), MidP(ObjectD))
C20_Witness ==
    /\ Called("Intersect") /\ shape = Annulus
    /\ out.Intersect.has /\ StatedDiskHit
    /\ FGt(out.Intersect.tHit, 0) /\ FLt(out.Intersect.tHit, inp.tMax)
    /\ FLt(out.Intersect.intr.p[2], 0)

(***************************************************************************)
(* Properties of the hit point of the disk                                 *)
(***************************************************************************)
\* The two divisors of Disk::InteractionFromIntersection at the hit isect:
\* rHit under dpdv and radius - innerRadius under v.
DiskDivisorsOf(isect) ==
    After(<<isect>>,
          <<FSqrt(FAdd(FMul(isect.pObj[1], isect.pObj[1]),
                       FMul(isect.pObj[2], isect.pObj[2]))),
            FSub(shape.radius, shape.innerRadius)>>)
DiskDivisors == DiskDivisorsOf(BasicIntersect(transforms, shape, inp.ray, inp.tMax))
\* C29: for every hit Disk::BasicIntersect accepts, neither divisor of
\* Disk::InteractionFromIntersection is zero: rHit = sqrt(x^2 + y^2) and
\* radius - innerRadius.
C29_Original ==
    (Called("Intersect") /\ shape.kind = "Disk" /\ out.Intersect.has) =>
        /\ FNe(DiskDivisors[1], 0)
        /\ FNe(DiskDivisors[2], 0)

(***************************************************************************)
(* Properties of the bilinear patch intersection                            *)
(***************************************************************************)
\* The coefficients, the two roots and their candidates that the static
\* BilinearPatch::Intersect computes for the ray and the patch of the state;
\* solved is FALSE when the discriminant is negative.
NoRoots == [solved |-> FALSE]
PatchRootsU(ray, e11, e00, q00, q10, a, b, c, u1, u2) ==
    After(<<u1, u2>>,
          [solved |-> TRUE, a |-> a, b |-> b, c |-> c, u1 |-> u1, u2 |-> u2,
           r1 |-> BilinearRoot(ray, u1, q00, q10, e00, e11),
           r2 |-> BilinearRoot(ray, u2, q00, q10, e00, e11)])
PatchRootsSolve(ray, e11, e00, q00, q10, a, b, c, u1) ==
    After(<<u1>>,
          PatchRootsU(ray, e11, e00, q00, q10, a, b, c,
                      BilinearU1(a, b, c, u1), BilinearU2(a, c, u1)))
PatchRootsDet(ray, e11, e00, q00, q10, a, b, c, det) ==
    After(<<det>>,
          IF FLt(det, 0) THEN NoRoots
          ELSE PatchRootsSolve(ray, e11, e00, q00, q10, a, b, c, BilinearStableRoot(b, det)))
PatchRootsB(ray, e11, e00, q00, q10, a, b, c) ==
    After(<<b>>,
          PatchRootsDet(ray, e11, e00, q00, q10, a, b, c, BilinearDiscriminant(a, b, c)))
PatchRootsAC(ray, e11, e00, q00, q10, a, c) ==
    After(<<a, c>>,
          PatchRootsB(ray, e11, e00, q00, q10, a,
                      FSub(Dot(Cross(q10, ray.d), e11), FAdd(a, c)), c))
PatchRootsEdges(ray, qn, e11, e00, q00, q10) ==
    After(<<qn, e11, e00, q00, q10>>,
          PatchRootsAC(ray, e11, e00, q00, q10,
                       Dot(Cross(q00, ray.d), e00), Dot(qn, ray.d)))
PatchRootsOf(ray, p00, p10, p01, p11) ==
    PatchRootsEdges(ray, Cross(VSub(p10, p00), VSub(p01, p11)), VSub(p11, p10),
                    VSub(p01, p00), VSub(p00, ray.o), VSub(p10, ray.o))
PatchRoots ==
    PatchRootsOf(inp.ray, PatchVertex(meshes.bilinear, shape, 1),
                 PatchVertex(meshes.bilinear, shape, 2),
                 PatchVertex(meshes.bilinear, shape, 3),
                 PatchVertex(meshes.bilinear, shape, 4))

\* A root u with its candidate r is a hit of the patch: u and the recovered
\* v = vn / det are in [0, 1] and t = tn / det is positive.
RootValid(u, r) ==
    /\ FLe(0, u) /\ FLe(u, Scale)
    /\ FLe(0, r.vn) /\ FLe(r.vn, r.det)
    /\ FGt(r.tn, 0)
RootT(r) == FDiv(r.tn, r.det)
RootHit(u, r) == BilinearIntersection(<<u, FDiv(r.vn, r.det)>>, RootT(r))
StatedChoice(res, tMax, R, v1, v2, t1, t2) ==
    After(<<v1, v2, t1, t2>>,
          /\ res.has <=> ((v1 /\ FLt(t1, tMax)) \/ (v2 /\ FLt(t2, tMax)))
          /\ res.has =>
                \/ v1 /\ (v2 => FLe(t1, t2)) /\ res = RootHit(R.u1, R.r1)
                \/ v2 /\ (v1 => FLe(t2, t1)) /\ res = RootHit(R.u2, R.r2)
          /\ (res.has /\ FEq(R.c, 0)) => res.uv[1] = FDiv(FNeg(R.a), R.b))
StatedNearest(res, tMax, R) ==
    After(<<R>>,
          IF ~R.solved THEN ~res.has
          ELSE StatedChoice(res, tMax, R, RootValid(R.u1, R.r1), RootValid(R.u2, R.r2),
                            RootT(R.r1), RootT(R.r2)))
BothValidOf(R) ==
    After(<<R>>,
          /\ R.solved /\ RootValid(R.u1, R.r1) /\ RootValid(R.u2, R.r2)
          /\ FLt(RootT(R.r2), RootT(R.r1))
          /\ out.BilinearIntersect = RootHit(R.u2, R.r2))
C22_Original ==
    (Called("BilinearIntersect") /\ out.BilinearIntersect.has) =>
        /\ FLe(0, out.BilinearIntersect.uv[1]) /\ FLe(out.BilinearIntersect.uv[1], Scale)
        /\ FLe(0, out.BilinearIntersect.uv[2]) /\ FLe(out.BilinearIntersect.uv[2], Scale)
        /\ FLt(0, out.BilinearIntersect.t) /\ FLt(out.BilinearIntersect.t, inp.tMax)

(***************************************************************************)
(* Properties of the returned ray parameter                                *)
(***************************************************************************)
\* The root interval t lies in (0, tMax] and tHit is its midpoint.
ChosenRootIs(t, tHit) ==
    /\ FGt(LowerBound(t), 0)
    /\ FLe(UpperBound(t), inp.tMax)
    /\ tHit = Midpoint(t)
\* The hit of a sphere or cylinder is at one of the two roots, within bounds.
QuadraticHitInBounds(tHit) ==
    /\ FGt(tHit, 0) /\ FLe(tHit, inp.tMax)
    /\ \/ ChosenRootIs(ShapeQuadratic.t0, tHit)
       \/ ChosenRootIs(ShapeQuadratic.t1, tHit)
StrictlyInBounds(tHit) == FGt(tHit, 0) /\ FLt(tHit, inp.tMax)
\* C30: every returned hit has 0 < tHit <= tMax: for a sphere or cylinder
\* the chosen root interval has a lower bound > 0 and an upper bound <= tMax
\* and tHit is its midpoint; for a disk and for the static
\* BilinearPatch::Intersect 0 < tHit < tMax.
C30_Original ==
    /\ (Called("Intersect") /\ HasQuadratic /\ out.Intersect.has) =>
           QuadraticHitInBounds(out.Intersect.tHit)
    /\ (Called("Intersect") /\ shape.kind = "Disk" /\ out.Intersect.has) =>
           StrictlyInBounds(out.Intersect.tHit)
    /\ (Called("BilinearIntersect") /\ out.BilinearIntersect.has) =>
           StrictlyInBounds(out.BilinearIntersect.t)

(***************************************************************************)
(* Properties of the triangle interaction                                  *)
(***************************************************************************)
\* normalize((p2 - p0) x (p1 - p0)), negated when the mesh flips normals.
StatedNormal == Oriented(Normalize(EdgeCross(ShapeVertices)), MeshFlipsNormal(ShapeMesh))
\* normalize((p0 - p2) x (p1 - p2)), negated when the mesh flips normals.
EdgeNormalOf(p) == Normalize(Cross(VSub(p[1], p[3]), VSub(p[2], p[3])))
EdgeNormal == Oriented(EdgeNormalOf(ShapeVertices), MeshFlipsNormal(ShapeMesh))
\* C23 as stated: the geometric normal that
\* Triangle::InteractionFromIntersection sets is normalize((p2 - p0) x
\* (p1 - p0)), negated when reverseOrientation XOR transformSwapsHandedness.
C23_Original ==
    (Called("Interaction") /\ out.Interaction.has) => out.Interaction.intr.n = StatedNormal
InteractionNormalIs(n, ns, e) ==
    After(<<e>>,
          IF ShapeMesh.n = << >>
          THEN n = e /\ n = VNeg(StatedNormal)
          ELSE n = FaceForward(e, ns))
\* C23: in a mesh without per-vertex normals the geometric normal that
\* Triangle::InteractionFromIntersection sets is normalize((p0 - p2) x
\* (p1 - p2)), the opposite of normalize((p2 - p0) x (p1 - p0)), negated when
\* reverseOrientation XOR transformSwapsHandedness; with per-vertex normals
\* that vector is turned to the side of the shading normal.
C23_InteractionNormal ==
    (Called("Interaction") /\ out.Interaction.has) =>
        InteractionNormalIs(out.Interaction.intr.n, out.Interaction.intr.ns, EdgeNormal)
C23_Witness ==
    /\ Called("Interaction") /\ out.Interaction.has
    /\ ShapeMesh.n = << >> /\ MeshFlipsNormal(ShapeMesh)
    /\ out.Interaction.intr.n = EdgeNormal
    /\ out.Interaction.intr.n = <<0, 0, -Scale>>

(***************************************************************************)
(* Properties of the branches of Triangle::Sample and Triangle::PDF        *)
(***************************************************************************)
\* sa < 1e-4 or sa > 6.28.
StatedFallback(sa) == FLt(sa, Lit(1, 10000)) \/ FGt(sa, Lit(628, 100))
ShapeSolidAngle == TriangleSolidAngle(meshes.triangle, shape, inp.ctx.p)
\* What the two branches of Triangle::Sample(ctx, u) and of
\* Triangle::PDF(ctx, wi) may return for the inputs of the state.
SampleAreaBranch == TriangleSampleArea(ShapeMesh, shape.triIndex, inp.ctx, inp.u)
SampleSphericalBranch ==
    TriangleSampleSpherical(ShapeMesh, shape.triIndex, ShapeVertices, inp.ctx,
        IF inp.ctx.ns # Zero3
        THEN FMul(Scale, TriangleSampleWarpPdf(inp.u, TriangleWarpWeights(inp.ctx, ShapeVertices)))
        ELSE Scale,
        SphericalTrianglePDF(ShapeSolidAngle))
PDFAreaBranch == TrianglePDFArea(meshes.triangle, shape, inp.ctx, inp.wi)
PDFSphericalBranch ==
    TrianglePDFSpherical(meshes.triangle, shape, ShapeVertices, inp.ctx, inp.wi,
                         ShapeSolidAngle)
RayMissesTriangle ==
    ~TriangleIntersectP(meshes.triangle, shape, SpawnRay(inp.ctx, inp.wi), PInf)
MirroredBranches(sa) ==
    After(<<sa>>,
          /\ Called("SampleCtx") =>
                 out.SampleCtx \in (IF StatedFallback(sa) THEN SampleAreaBranch
                                    ELSE SampleSphericalBranch)
          /\ Called("PDFCtx") =>
                 /\ out.PDFCtx \in (IF StatedFallback(sa) THEN PDFAreaBranch
                                    ELSE PDFSphericalBranch)
                 /\ (~StatedFallback(sa) /\ RayMissesTriangle) => out.PDFCtx = 0)
\* C24: Triangle::Sample(ctx, u) and Triangle::PDF(ctx, wi) both take the
\* area-sampling fallback exactly when the solid angle sa of the triangle
\* from ctx.p is below 1e-4 or above 6.28 and the spherical branch otherwise,
\* and in the spherical branch PDF returns 0 for a ray that misses the
\* triangle.
C24_MirroredBranches == shape.kind = "Triangle" => MirroredBranches(ShapeSolidAngle)
C24_Witness ==
    /\ shape.kind = "Triangle" /\ Called("SampleCtx") /\ Called("PDFCtx")
    /\ ~StatedFallback(ShapeSolidAngle)
    /\ out.SampleCtx.has /\ out.SampleCtx \notin SampleAreaBranch
    /\ RayMissesTriangle /\ out.PDFCtx = 0

\* w = {max(0.01, |ns . w1|), max(0.01, |ns . w1|), max(0.01, |ns . w0|),
\* max(0.01, |ns . w2|)} for the directions wi to the vertices.
StatedWeightsTo(ns, w0, w1, w2) ==
    After(<<w0, w1, w2>>,
          <<FMax(10000, FAbs(Dot(ns, w1))), FMax(10000, FAbs(Dot(ns, w1))),
            FMax(10000, FAbs(Dot(ns, w0))), FMax(10000, FAbs(Dot(ns, w2)))>>)
StatedWeights ==
    StatedWeightsTo(inp.ctx.ns, Normalize(VSub(ShapeVertices[1], inp.ctx.p)),
                    Normalize(VSub(ShapeVertices[2], inp.ctx.p)),
                    Normalize(VSub(ShapeVertices[3], inp.ctx.p)))
Warps == inp.ctx.ns # Zero3
\* The densities as stated: the spherical-triangle density, times the
\* bilinear density of the warped point when the context has a normal.
StatedSamplePdf(w, triPDF) ==
    After(<<w, triPDF>>,
          IF Warps THEN FMul(FMul(Scale, BilinearPDF(SampleBilinear(inp.u, w), w)), triPDF)
          ELSE FMul(Scale, triPDF))
StatedPDFs(w, pdf) ==
    After(<<w, pdf>>,
          IF Warps THEN {FMul(pdf, BilinearPDF(u, w)) : u \in SquareChoices} ELSE {pdf})
WarpedDensities(sa, w) ==
    After(<<sa, w>>,
          /\ \A i \in 1 .. 4 : FGe(w[i], Lit(1, 100))
          /\ (Called("SampleCtx") /\ out.SampleCtx.has) =>
                 out.SampleCtx.pdf = StatedSamplePdf(w, SphericalTrianglePDF(sa))
          /\ (Called("PDFCtx") /\ ~RayMissesTriangle) =>
                 out.PDFCtx \in StatedPDFs(w, FDiv(Scale, sa)))
\* C25: in the spherical branch Triangle::Sample(ctx, u) and
\* Triangle::PDF(ctx, wi) multiply the spherical-triangle density by
\* BilinearPDF(u, w) exactly when ctx.ns is not zero, with the same weights
\* w = {max(0.01, |ns . w1|), max(0.01, |ns . w1|), max(0.01, |ns . w0|),
\* max(0.01, |ns . w2|)}, each at least 0.01; for a zero ctx.ns the density
\* is the spherical-triangle density alone, 1 / sa in PDF.
C25_WarpedDensities ==
    (shape.kind = "Triangle" /\ ~StatedFallback(ShapeSolidAngle)) =>
        WarpedDensities(ShapeSolidAngle, StatedWeights)
DistinctWeights(w) == After(<<w>>, w[2] # w[3] /\ w[3] # w[4])
C25_Witness ==
    /\ shape.kind = "Triangle" /\ ~StatedFallback(ShapeSolidAngle)
    /\ Called("SampleCtx") /\ Called("PDFCtx")
    /\ Warps /\ DistinctWeights(StatedWeights)
    /\ out.SampleCtx.has /\ ~RayMissesTriangle
    /\ out.PDFCtx # FDiv(Scale, ShapeSolidAngle)

(***************************************************************************)
(* Properties of the samples seen from a reference point                   *)
(***************************************************************************)
\* C26: every sample that Sample(ctx, u) of a sphere, a disk, a cylinder or
\* a triangle returns carries the time ctx.time.
C26_Original ==
    (Called("SampleCtx") /\ out.SampleCtx.has) => out.SampleCtx.intr.time = inp.ctx.time

\* The ray from the reference point along wi misses the shape.
RayMisses ==
    ~HandleIntersect(transforms, meshes, shape, SpawnRay(inp.ctx, inp.wi), PInf).has
\* C27 as stated: PDF(ctx, wi) of a sphere, a disk, a cylinder or a triangle
\* is 0 for every direction whose ray from the reference point misses the
\* shape.
C27_Original == (Called("PDFCtx") /\ RayMisses) => out.PDFCtx = 0
\* The ray that Sphere::PDF(ctx, wi) casts from a reference point inside the
\* sphere misses it.
InsideRayMisses(pOrigin) ==
    ~SphereIntersect(transforms, shape, MakeRay(pOrigin, inp.wi, 0), PInf).has
ZeroOnMiss ==
    IF shape.kind # "Sphere" THEN RayMisses => out.PDFCtx = 0
    ELSE IF SphereOutside(transforms, shape, inp.ctx)
    THEN /\ out.PDFCtx = SpherePDFCos(PDFSin2(transforms, shape, inp.ctx))
         /\ FGt(out.PDFCtx, 0)
    ELSE InsideRayMisses(OffsetRayOriginTo(inp.ctx, Centre(transforms, shape))) =>
             out.PDFCtx = 0
\* C27: PDF(ctx, wi) of a disk, a cylinder, a triangle and of a sphere that
\* holds the reference point is 0 for every direction whose ray misses the
\* shape; for a reference point outside the sphere Sphere::PDF(ctx, wi) is
\* the positive density of the cone of the sphere for every wi, hit or miss.
C27_ZeroOnMiss == Called("PDFCtx") => ZeroOnMiss
C27_Witness ==
    /\ Called("PDFCtx") /\ shape.kind = "Sphere"
    /\ SphereOutside(transforms, shape, inp.ctx)
    /\ RayMisses /\ FGt(out.PDFCtx, 0) /\ IsFin(out.PDFCtx)

(***************************************************************************)
(* Properties of the samples of the disk                                   *)
(***************************************************************************)
\* The object-space point pObj is on the part of the disk that
\* Disk::BasicIntersect accepts.
OnDiskAt(pObj, rHit, phi) ==
    After(<<pObj, rHit, phi>>,
          /\ FLe(shape.innerRadius, rHit)
          /\ FLe(rHit, shape.radius)
          /\ FLe(phi, shape.phiMax))
OnDisk(pObj) ==
    After(<<pObj>>,
          OnDiskAt(pObj, FSqrt(FAdd(FMul(pObj[1], pObj[1]), FMul(pObj[2], pObj[2]))),
                   DiskPhi(pObj)))
\* C28: every point that Disk::Sample(u) returns lies on the surface that
\* Disk::BasicIntersect accepts: its radius is between innerRadius and
\* radius and its angle is at most phiMax.
C28_Original ==
    (Called("Sample") /\ shape.kind = "Disk") =>
        OnDisk(ApplyP(transforms[shape.objectFromRender], out.Sample.intr.p))

(***************************************************************************)
(* Properties of the concurrent calls                                      *)
(***************************************************************************)
Frames(t) == {threads[t].stack[i] : i \in DOMAIN threads[t].stack}
\* A returned value is one the method returns for its arguments when it is
\* evaluated alone, in one step, on the shape.
Alone(r) == r.has => r.value \in Evaluate(transforms, meshes, shape, r.method, r.args)
ReturnsAlone(t) == Alone(threads[t].result) /\ \A f \in Frames(t) : Alone(f.ret)
\* C2: no step of an evaluation of Bounds, NormalBounds, Intersect,
\* IntersectP, Area, Sample(u), PDF(interaction), Sample(ctx, u) or
\* PDF(ctx, wi) changes the shape, the transforms or the mesh registries, and
\* under every interleaving of two threads evaluating on the same shape each
\* call, nested or not, returns a value it returns when run alone.
C2_ReadOnlyUnderInterleaving ==
    /\ [][UNCHANGED <<transforms, meshes, shape>>]_vars
    /\ [](\A t \in Threads : ReturnsAlone(t))
\* Both threads are inside an evaluation, the first after a nested call has
\* returned to it and the second inside a nested call.
C2_Witness ==
    /\ Running(1) /\ Running(2)
    /\ Top(1).ret.has
    /\ Len(threads[2].stack) = 2
    /\ Top(1).method # threads[2].stack[1].method

\* No method is twice on the stack of a thread.
NoRecursion(t) ==
    \A i, j \in DOMAIN threads[t].stack :
        i # j => threads[t].stack[i].method # threads[t].stack[j].method
\* C7: every call terminates: a thread that has entered a method eventually
\* has returned from it; a method examines at most two roots of its
\* quadratic; a method calls at most one level deep and no method is
\* entered again while it is on the stack.
C7_BoundedAndFinite ==
    /\ [](\A t \in Threads :
              /\ Len(threads[t].stack) <= 2
              /\ NoRecursion(t)
              /\ \A f \in Frames(t) : f.tried <= 2)
    /\ \A t \in Threads : (threads[t].stack # << >>) ~> threads[t].done
\* A PDF(ctx, wi) call that went through Intersect has returned while the
\* other thread is in a nested Intersect that has examined both roots.
C7_Witness ==
    /\ threads[1].done
    /\ Len(threads[2].stack) = 2
    /\ threads[2].stack[1].method = "PDFCtx"
    /\ threads[2].stack[2].method = "Intersect"
    /\ threads[2].stack[2].tried = 2

====
